---- MODULE Spec2Model ----
(***************************************************************************)
(* State-machine model of the yactfr decoding virtual machine (Vm, VmPos). *)
(*                                                                         *)
(* The machine is the record m = [pos, buf, it, err, src, gh, ret,         *)
(* reaction]:                                                              *)
(*   pos  - VmPos, the whole decodable state                               *)
(*   buf  - the window {_bufAddr, _bufLenBits, _bufOffsetInCurPktBits}     *)
(*   it   - the iterator's {_offset, _mark, _curElem}                      *)
(*   err  - the decoding error thrown by the running advance, if any       *)
(*   src  - the data source: the bytes of the element sequence and how it  *)
(*          sizes the blocks it returns                                    *)
(*   gh   - history (ghost) fields observed by the properties only         *)
(*   ret, reaction - what the last method returned (a bool, an             *)
(*          _ExecReaction)                                                 *)
(* Every method of the VM is an operator from machine to machine; an       *)
(* exception is the err field, which makes every method that follows a     *)
(* no-op.  The actions are the state handlers that nextElem() dispatches   *)
(* to through _handleState(), plus savePos() and restorePos().             *)
(*                                                                         *)
(* 64-bit unsigned words (Size, Index, std::uint64_t) are WordBits wide    *)
(* here; all arithmetic on them is modulo 2^WordBits as in the source.     *)
(* The widest aligned read of the source (64 bits) is the 16-bit read.     *)
(***************************************************************************)
EXTENDS Integers, Sequences, FiniteSets, TLC

WordBits == 16
MaxBlk == 3
MaxK == 3

WordMod == 2 ^ WordBits
SIZE_UNSET == WordMod - 1
SAVED_VAL_UNSET == WordMod - 1
END_OFFSET == WordMod - 1

USub(a, b) == (a - b) % WordMod
UAdd(a, b) == (a + b) % WordMod
Min(a, b) == IF a < b THEN a ELSE b
Max(a, b) == IF a < b THEN b ELSE a

NoErr == "none"
Undefined == "Undefined"
AssertionFailed == "AssertionFailed"

(***************************************************************************)
(* Instructions and procedures                                             *)
(***************************************************************************)
I(kind) ==
    [kind |-> kind, align |-> 1, len |-> 0, bo |-> "le", sgn |-> FALSE,
     proc |-> "", pos |-> 0, fixedId |-> -1, opts |-> <<>>, scope |-> ""]

RdA8(sgn) ==
    [I(IF sgn THEN "READ_SINT_A8" ELSE "READ_UINT_A8") EXCEPT
        !.align = 8, !.len = 8, !.bo = "be", !.sgn = sgn]
RdA16(bo) ==
    [I(IF bo = "le" THEN "READ_UINT_A16_LE" ELSE "READ_UINT_A16_BE") EXCEPT
        !.align = 8, !.len = 16, !.bo = bo]
RdBits(len, bo) ==
    [I(IF bo = "le" THEN "READ_UINT_LE" ELSE "READ_UINT_BE") EXCEPT
        !.align = 1, !.len = len, !.bo = bo]
Scope(sc, proc) ==
    [I("BEGIN_READ_SCOPE") EXCEPT !.align = 8, !.scope = sc, !.proc = proc]
Struct(proc) == [I("BEGIN_READ_STRUCT") EXCEPT !.align = 8, !.proc = proc]
Str == [I("READ_STR") EXCEPT !.align = 8]
StaticArray(kind, len, proc) == [I(kind) EXCEPT !.align = 8, !.len = len, !.proc = proc]
DynArray(kind, lenPos, proc) == [I(kind) EXCEPT !.align = 8, !.pos = lenPos, !.proc = proc]
Var(kind, selPos, opts) == [I(kind) EXCEPT !.align = 8, !.pos = selPos, !.opts = opts]
Opt(lo, hi, proc) == [lower |-> lo, upper |-> hi, proc |-> proc]
SaveVal(p) == [I("SAVE_VAL") EXCEPT !.pos = p]
UpdClk(len) == [I("UPDATE_DEF_CLK_VAL") EXCEPT !.len = len]
SetType(kind, id) == [I(kind) EXCEPT !.fixedId = id]

\* trace type 1: packet header with a data stream ID, packet context with
\* both expected lengths, event records told apart by an ID
Procs1 ==
    [pre  |-> <<Scope("PH", "ph"), SetType("SET_DST", -1), I("SET_DS_INFO"),
                I("END_PKT_PREAMBLE_PROC")>>,
     ph   |-> <<RdA8(FALSE), I("SET_CUR_ID"), I("SET_DS_ID"), I("END_READ_SCOPE")>>,
     pc   |-> <<Scope("PC", "pcs"), I("SET_PKT_INFO"), I("END_DS_PKT_PREAMBLE_PROC")>>,
     pcs  |-> <<Struct("pcst"), I("END_READ_SCOPE")>>,
     pcst |-> <<RdA8(FALSE), I("SET_PKT_TOTAL_LEN"), RdA8(FALSE),
                I("SET_PKT_CONTENT_LEN"), I("END_READ_STRUCT")>>,
     eh   |-> <<Scope("EH", "ehs"), SetType("SET_ERT", -1), I("SET_ER_INFO"),
                I("END_DS_ER_PREAMBLE_PROC")>>,
     ehs  |-> <<RdA8(FALSE), I("SET_CUR_ID"), I("END_READ_SCOPE")>>,
     \* event record 0: dynamic array of bytes
     e0   |-> <<Scope("ERP", "e0s"), I("END_ER_PROC")>>,
     e0s  |-> <<RdA8(FALSE), SaveVal(1),
                DynArray("BEGIN_READ_DYN_ARRAY", 1, "u8"), I("END_READ_DYN_ARRAY"),
                I("END_READ_SCOPE")>>,
     u8   |-> <<RdA8(FALSE)>>,
     \* event record 1: null-terminated string
     e1   |-> <<Scope("ERP", "e1s"), I("END_ER_PROC")>>,
     e1s  |-> <<Str, I("END_READ_SCOPE")>>,
     \* event record 2: variant with an unsigned selector, whose options
     \* share the values 4 and 5
     e2   |-> <<Scope("ERP", "e2s"), I("END_ER_PROC")>>,
     e2s  |-> <<RdA8(FALSE), SaveVal(2),
                Var("BEGIN_READ_VAR_USEL", 2,
                    <<Opt(0, 5, "v0"), Opt(4, 10, "v1")>>),
                I("END_READ_SCOPE")>>,
     v0   |-> <<RdA8(FALSE), I("END_READ_VAR")>>,
     v1   |-> <<RdA16("le"), I("END_READ_VAR")>>,
     \* event record 3: dynamic text array
     e3   |-> <<Scope("ERP", "e3s"), I("END_ER_PROC")>>,
     e3s  |-> <<RdA8(FALSE), SaveVal(1),
                DynArray("BEGIN_READ_DYN_TEXT_ARRAY", 1, "u8"),
                I("END_READ_DYN_TEXT_ARRAY"), I("END_READ_SCOPE")>>]

\* trace type 2: no packet header, no expected lengths (a single packet per
\* element sequence), clock updates, static arrays, bit fields
Procs2 ==
    [pre  |-> <<SetType("SET_DST", 0), I("END_PKT_PREAMBLE_PROC")>>,
     pc   |-> <<I("END_DS_PKT_PREAMBLE_PROC")>>,
     eh   |-> <<Scope("EH", "ehs"), SetType("SET_ERT", -1),
                I("END_DS_ER_PREAMBLE_PROC")>>,
     ehs  |-> <<RdA8(FALSE), I("SET_CUR_ID"), I("END_READ_SCOPE")>>,
     \* event record 0: 8-bit clock snapshot
     e0   |-> <<RdA8(FALSE), UpdClk(8), I("END_ER_PROC")>>,
     \* event record 1: full-word clock snapshot
     e1   |-> <<RdA16("le"), UpdClk(WordBits), I("END_ER_PROC")>>,
     \* event record 2: two 4-bit fields, little then big endian
     e2   |-> <<RdBits(4, "le"), RdBits(4, "be"), I("END_ER_PROC")>>,
     \* event record 3: static array of two structures
     e3   |-> <<StaticArray("BEGIN_READ_STATIC_ARRAY", 2, "el"),
                I("END_READ_STATIC_ARRAY"), I("END_ER_PROC")>>,
     el   |-> <<Struct("els")>>,
     els  |-> <<RdA8(TRUE), I("END_READ_STRUCT")>>,
     \* event record 4: static text array of three bytes
     e4   |-> <<StaticArray("BEGIN_READ_STATIC_TEXT_ARRAY", 3, "u8"),
                I("END_READ_STATIC_TEXT_ARRAY"), I("END_ER_PROC")>>,
     u8   |-> <<RdA8(FALSE)>>,
     \* event record 5: two 4-bit little-endian fields and a 12-bit one
     e5   |-> <<RdBits(4, "le"), RdBits(12, "le"), I("END_ER_PROC")>>,
     \* event record 6: variant with a signed selector
     e6   |-> <<RdA8(TRUE), SaveVal(1),
                Var("BEGIN_READ_VAR_SSEL", 1, <<Opt(-2, -1, "v0"), Opt(0, 3, "v1")>>),
                I("END_ER_PROC")>>,
     v0   |-> <<I("END_READ_VAR")>>,
     v1   |-> <<RdA8(FALSE), I("END_READ_VAR")>>,
     \* event record 7: dynamic array whose length is a full word
     e7   |-> <<RdA16("le"), SaveVal(1),
                DynArray("BEGIN_READ_DYN_ARRAY", 1, "u8"), I("END_READ_DYN_ARRAY"),
                I("END_ER_PROC")>>,
     \* event record 8: a 4-bit field, then a null-terminated string
     e8   |-> <<RdBits(4, "le"), Str, I("END_ER_PROC")>>,
     \* event record 9: dynamic array whose element is a static array of two
     \* bytes followed by a variant
     e9   |-> <<RdA8(FALSE), SaveVal(1),
                DynArray("BEGIN_READ_DYN_ARRAY", 1, "ea"), I("END_READ_DYN_ARRAY"),
                I("END_ER_PROC")>>,
     ea   |-> <<StaticArray("BEGIN_READ_STATIC_ARRAY", 2, "u8"),
                I("END_READ_STATIC_ARRAY"),
                Var("BEGIN_READ_VAR_USEL", 1, <<Opt(0, 1, "v0"), Opt(2, 3, "v1")>>)>>]

\* trace type 3: no data stream type; the header holds the magic number and the
\* UUID
Procs3 ==
    [pre  |-> <<Scope("PH", "ph"), I("END_PKT_PREAMBLE_PROC")>>,
     ph   |-> <<RdA8(FALSE), I("SET_PKT_MAGIC_NUMBER"),
                StaticArray("BEGIN_READ_STATIC_UUID_ARRAY", 16, "u8"),
                I("END_READ_STATIC_ARRAY"), I("END_READ_SCOPE")>>,
     u8   |-> <<RdA8(FALSE)>>]

\* trace type 4: expected lengths, event records aligned to 16 bits holding one
\* byte and the end clock value in the packet context
Procs4 ==
    [pre  |-> <<SetType("SET_DST", 0), I("END_PKT_PREAMBLE_PROC")>>,
     pc   |-> <<Scope("PC", "pcs"), I("SET_PKT_INFO"), I("END_DS_PKT_PREAMBLE_PROC")>>,
     pcs  |-> <<RdA8(FALSE), I("SET_PKT_CONTENT_LEN"), RdA8(FALSE),
                I("SET_PKT_TOTAL_LEN"), I("SET_PKT_END_DEF_CLK_VAL"),
                I("SET_PKT_ORIGIN_INDEX"), I("END_READ_SCOPE")>>,
     eh   |-> <<SetType("SET_ERT", 0), I("END_DS_ER_PREAMBLE_PROC")>>,
     e0   |-> <<Scope("ERP", "e0s"), I("END_ER_PROC")>>,
     e0s  |-> <<RdBits(4, "le"), UpdClk(4), I("END_READ_SCOPE")>>]

\* trace type 5: packet header with the ID of the only data stream type (1),
\* an expected content length and no expected total length, event records of
\* four bits of the only event record type (0), without header
Procs5 ==
    [pre  |-> <<Scope("PH", "ph"), SetType("SET_DST", -1), I("SET_DS_INFO"),
                I("END_PKT_PREAMBLE_PROC")>>,
     ph   |-> <<RdA8(FALSE), I("SET_CUR_ID"), I("SET_DS_ID"), I("END_READ_SCOPE")>>,
     pc   |-> <<Scope("PC", "pcs"), I("SET_PKT_INFO"), I("END_DS_PKT_PREAMBLE_PROC")>>,
     pcs  |-> <<RdA8(FALSE), I("SET_PKT_CONTENT_LEN"), I("END_READ_SCOPE")>>,
     eh   |-> <<SetType("SET_ERT", 0), I("END_DS_ER_PREAMBLE_PROC")>>,
     e0   |-> <<RdBits(4, "le"), I("END_ER_PROC")>>]

\* PktProc: the preamble procedure, the data stream packet procedures by ID
\* (each with its event record procedures by ID) and the saved value count
PktProcs ==
    <<[procs |-> Procs1, preambleProc |-> "pre", savedValsCount |-> 2, uuid |-> FALSE,
       dsts |-> [id \in {0} |->
                   [pktPreambleProc |-> "pc", erPreambleProc |-> "eh", erAlign |-> 8,
                    erts |-> [e \in 0 .. 3 |-> <<"e0", "e1", "e2", "e3">>[e + 1]]]]],
      [procs |-> Procs2, preambleProc |-> "pre", savedValsCount |-> 1, uuid |-> FALSE,
       dsts |-> [id \in {0} |->
                   [pktPreambleProc |-> "pc", erPreambleProc |-> "eh", erAlign |-> 8,
                    erts |-> [e \in 0 .. 9 |->
                                <<"e0", "e1", "e2", "e3", "e4", "e5", "e6", "e7",
                                  "e8", "e9">>[e + 1]]]]],
      [procs |-> Procs3, preambleProc |-> "pre", savedValsCount |-> 0, uuid |-> TRUE,
       dsts |-> [id \in {} |-> 0]],
      [procs |-> Procs4, preambleProc |-> "pre", savedValsCount |-> 0, uuid |-> FALSE,
       dsts |-> [id \in {0} |->
                   [pktPreambleProc |-> "pc", erPreambleProc |-> "eh", erAlign |-> 16,
                    erts |-> [e \in {0} |-> "e0"]]]],
      [procs |-> Procs5, preambleProc |-> "pre", savedValsCount |-> 0, uuid |-> FALSE,
       dsts |-> [id \in {1} |->
                   [pktPreambleProc |-> "pc", erPreambleProc |-> "eh", erAlign |-> 1,
                    erts |-> [e \in {0} |-> "e0"]]]]>>

RawProc(p, name) == PktProcs[p.pktProc].procs[name]

(***************************************************************************)
(* VmPos                                                                   *)
(***************************************************************************)
ElemNames ==
    {"pktBeginning", "end", "scopeBeginning", "pktContentBeginning", "erBeginning",
     "dsInfo", "pktInfo", "erInfo", "pktMagicNumber", "traceTypeUuid", "defClkVal",
     "sInt", "uInt", "strBeginning", "substr", "staticArrayBeginning",
     "staticTextArrayBeginning", "dynArrayBeginning", "dynTextArrayBeginning",
     "structBeginning", "varSSelBeginning", "varUSelBeginning"}

\* VmPos::VmPos(const PktProc&): the members without an initializer hold a
\* placeholder that no handler reads before resetForNewPkt() or a read
\* instruction has written them
VmPos(pktProc) ==
    [curPktOffsetInElemSeqBits |-> 0,
     headOffsetInCurPktBits |-> 0,
     elems |-> [n \in ElemNames |->
                  IF n = "pktInfo" THEN <<-1, -1, -1, -1>>
                  ELSE IF n = "dsInfo" THEN <<-1, -1>> ELSE <<>>],
     theState |-> "BEGIN_PKT",
     postSkipBitsState |-> "BEGIN_PKT",
     postEndStrState |-> "BEGIN_PKT",
     lastBo |-> "none",
     remBitsToSkip |-> 0,
     lastIntVal |-> 0,
     curId |-> 0,
     pktProc |-> pktProc,
     curDsPktProc |-> -1,
     curErProc |-> -1,
     uuid |-> [i \in 0 .. 15 |-> 0],
     curExpectedPktTotalLenBits |-> SIZE_UNSET,
     curExpectedPktContentLenBits |-> SIZE_UNSET,
     stack |-> <<>>,
     savedVals |-> [i \in 1 .. PktProcs[pktProc].savedValsCount |-> SIZE_UNSET],
     defClkVal |-> 0]

VmStackFrame(proc, parentState) ==
    [proc |-> proc, it |-> 1, parentState |-> parentState, remElems |-> 0]

Ok(m) == m.err = NoErr

\* throw: the first exception is the one that leaves the method
Throw(m, e) == IF Ok(m) THEN [m EXCEPT !.err = e, !.gh.errSeen = TRUE] ELSE m

\* assert(cond): a failed assertion ends the run
\* throw an error that carries an offset and an ID
ThrowAt(m, e, offset, id) ==
    IF Ok(m) THEN [Throw(m, e) EXCEPT !.gh.errInfo = <<offset, id>>] ELSE m

Ensure(m, cond) == IF Ok(m) /\ ~cond THEN Throw(m, AssertionFailed) ELSE m

\* return b; return reaction;
Ret(m, b) == [m EXCEPT !.ret = b]
React(m, reaction) == [m EXCEPT !.reaction = reaction]

\* VmPos::state(const VmState)
state(m, newState) == IF Ok(m) THEN [m EXCEPT !.pos.theState = newState] ELSE m

stackTop(p) == p.stack[Len(p.stack)]

stackPush(m, proc) ==
    IF Ok(m)
    THEN [m EXCEPT !.pos.stack = Append(@, VmStackFrame(proc, m.pos.theState))]
    ELSE m

\* popping an empty stack is undefined behaviour
stackPop(m) ==
    IF ~Ok(m) THEN m
    ELSE IF m.pos.stack = <<>> THEN Throw(m, Undefined)
    ELSE [m EXCEPT !.pos.stack = SubSeq(@, 1, Len(@) - 1)]

setParentStateAndStackPop(m) ==
    IF ~Ok(m) THEN m
    ELSE IF m.pos.stack = <<>> THEN Throw(m, Undefined)
    ELSE stackPop(state(m, stackTop(m.pos).parentState))

\* variant: the cursor moves by two instructions
gotoNextInstrTwice(m) ==
    IF ~Ok(m) THEN m
    ELSE IF m.pos.stack = <<>> THEN Throw(m, Undefined)
    ELSE [m EXCEPT !.pos.stack[Len(m.pos.stack)].it = @ + 2]

gotoNextInstr(m) ==
    IF ~Ok(m) THEN m
    ELSE IF m.pos.stack = <<>> THEN Throw(m, Undefined)
    ELSE [m EXCEPT !.pos.stack[Len(m.pos.stack)].it = @ + 1]

\* history: what is on the stack when a procedure is loaded or ends
LogProc(m, op) ==
    IF ~Ok(m) THEN m
    ELSE [m EXCEPT !.gh.procs = Append(@, [op |-> op, depth |-> Len(m.pos.stack),
                                           st |-> m.pos.theState,
                                           curEr |-> m.pos.curErProc])]

loadNewProc(m, proc) ==
    stackPush(Ensure(LogProc(m, "loadNewProc"), m.pos.stack = <<>>), proc)

AtProcEnd(p) == stackTop(p).it > Len(RawProc(p, stackTop(p).proc))

nextInstr(p) == RawProc(p, stackTop(p).proc)[stackTop(p).it]

saveVal(m, i) == IF Ok(m) THEN [m EXCEPT !.pos.savedVals[i] = m.pos.lastIntVal] ELSE m

savedVal(p, i) == p.savedVals[i]

Pow2(n) == 2 ^ n

\* x & mask and x & ~mask for mask = 2^len - 1
LowBits(x, len) == x % Pow2(len)
ClearLowBits(x, len) == x - (x % Pow2(len))

RECURSIVE BitOr(_, _)
BitOr(a, b) ==
    IF a = 0 THEN b
    ELSE IF b = 0 THEN a
    ELSE (IF a % 2 = 1 \/ b % 2 = 1 THEN 1 ELSE 0) + 2 * BitOr(a \div 2, b \div 2)

\* variant: the low bits are replaced without looking for a wrap
updateDefClkValNoWrap(p, len) ==
    IF len = WordBits THEN p.lastIntVal
    ELSE BitOr(ClearLowBits(p.defClkVal, len), p.lastIntVal)

\* variant: a wrap adds twice the range of the new value
updateDefClkValWrapTwice(p, len) ==
    IF len = WordBits
    THEN p.lastIntVal
    ELSE LET curValMasked == LowBits(p.defClkVal, len)
             wrapped == IF p.lastIntVal < curValMasked
                        THEN UAdd(p.defClkVal, 2 * Pow2(len))
                        ELSE p.defClkVal
         IN  BitOr(ClearLowBits(wrapped, len), p.lastIntVal)

\* VmPos::updateDefClkVal(): the new value of defClkVal
updateDefClkVal(p, len) ==
    IF len = WordBits
    THEN p.lastIntVal
    ELSE LET curValMasked == LowBits(p.defClkVal, len)
             wrapped == IF p.lastIntVal < curValMasked
                        THEN UAdd(p.defClkVal, Pow2(len))
                        ELSE p.defClkVal
         IN  BitOr(ClearLowBits(wrapped, len), p.lastIntVal)

\* variant: the bits that remain in the whole packet
remBitsInPkt(p) == USub(p.curExpectedPktTotalLenBits, p.headOffsetInCurPktBits)

remContentBitsInPkt(p) ==
    USub(p.curExpectedPktContentLenBits, p.headOffsetInCurPktBits)

headOffsetInElemSeqBits(p) ==
    UAdd(p.curPktOffsetInElemSeqBits, p.headOffsetInCurPktBits)

\* variant: the offset of the packet in the element sequence is reset too
resetForNewPktAndOffset(m) ==
    [m EXCEPT !.pos.curPktOffsetInElemSeqBits = 0,
              !.pos.headOffsetInCurPktBits = 0,
              !.pos.theState = "BEGIN_PKT",
              !.pos.lastBo = "none",
              !.pos.curDsPktProc = -1,
              !.pos.curErProc = -1,
              !.pos.curExpectedPktTotalLenBits = SIZE_UNSET,
              !.pos.curExpectedPktContentLenBits = SIZE_UNSET,
              !.pos.stack = <<>>,
              !.pos.defClkVal = 0,
              !.pos.savedVals = [i \in DOMAIN m.pos.savedVals |-> SAVED_VAL_UNSET]]

\* variant: the default clock value is kept
resetForNewPktKeepClk(m) ==
    [m EXCEPT !.pos.headOffsetInCurPktBits = 0,
              !.pos.theState = "BEGIN_PKT",
              !.pos.lastBo = "none",
              !.pos.curDsPktProc = -1,
              !.pos.curErProc = -1,
              !.pos.curExpectedPktTotalLenBits = SIZE_UNSET,
              !.pos.curExpectedPktContentLenBits = SIZE_UNSET,
              !.pos.stack = <<>>,
              !.pos.savedVals = [i \in DOMAIN m.pos.savedVals |-> SAVED_VAL_UNSET]]

resetForNewPkt(m) ==
    [m EXCEPT !.pos.headOffsetInCurPktBits = 0,
              !.pos.theState = "BEGIN_PKT",
              !.pos.lastBo = "none",
              !.pos.curDsPktProc = -1,
              !.pos.curErProc = -1,
              !.pos.curExpectedPktTotalLenBits = SIZE_UNSET,
              !.pos.curExpectedPktContentLenBits = SIZE_UNSET,
              !.pos.stack = <<>>,
              !.pos.defClkVal = 0,
              !.pos.savedVals = [i \in DOMAIN m.pos.savedVals |-> SAVED_VAL_UNSET]]

(***************************************************************************)
(* Data source and window                                                  *)
(***************************************************************************)
\* DataSource::data(offsetBytes, sizeBytes): the number of bytes of the block
\* returned, 0 for no block.  A source returns at least sizeBytes bytes
\* (src.blk when it has that many), nothing past the end of the data, and,
\* when fewer than sizeBytes bytes are left, either nothing or (src.short)
\* the bytes that are left.
DataSrcData(src, offsetBytes, sizeBytes) ==
    LET avail == Len(src.data) - offsetBytes
    IN  IF avail <= 0 THEN 0
        ELSE IF avail < sizeBytes THEN (IF src.short THEN avail ELSE 0)
        ELSE Min(Max(sizeBytes, src.blk), avail)

Log(m, e) == [m EXCEPT !.gh.log = Append(@, e)]

_remBitsInBuf(m) ==
    USub(UAdd(m.buf.off, m.buf.len), m.pos.headOffsetInCurPktBits)

\* the window on a block of n bytes, if any, and what _newDataBlock() returns
NewWindow(m, offsetInElemSeqBytes, n) ==
    IF n = 0 THEN Ret(m, FALSE)
    ELSE [m EXCEPT !.ret = TRUE,
                   !.buf = [addr |-> offsetInElemSeqBytes,
                            len |-> n * 8,
                            off |-> USub(offsetInElemSeqBytes * 8,
                                         m.pos.curPktOffsetInElemSeqBits)]]

\* history: the data source is asked for sizeBytes bytes at offsetBytes; the
\* last two requests are kept from one advance to the next
LogData(m, offsetBytes, sizeBytes) ==
    [Log(m, [op |-> "data", offset |-> offsetBytes, size |-> sizeBytes,
             ret |-> DataSrcData(m.src, offsetBytes, sizeBytes)])
        EXCEPT !.gh.req = <<@[2], [offset |-> offsetBytes, size |-> sizeBytes,
                                   head |-> headOffsetInElemSeqBits(m.pos)]>>]

_newDataBlock(m, offsetInElemSeqBytes, sizeBytes) ==
    NewWindow(LogData(m, offsetInElemSeqBytes, sizeBytes),
              offsetInElemSeqBytes,
              DataSrcData(m.src, offsetInElemSeqBytes, sizeBytes))

LogTry(m, bits) ==
    Log(m, [op |-> "tryHaveBits", bits |-> bits, ret |-> m.ret,
            rem |-> _remBitsInBuf(m)])

\* variant: the block is requested at the offset of the head in the packet
_tryHaveBitsInPkt(m, bits) ==
    IF ~Ok(m) THEN m
    ELSE IF bits <= _remBitsInBuf(m) THEN LogTry(Ret(m, TRUE), bits)
    ELSE LogTry(_newDataBlock(m, m.pos.headOffsetInCurPktBits \div 8,
                              (bits + 7 + (m.pos.headOffsetInCurPktBits % 8)) \div 8),
                bits)

_tryHaveBits(m, bits) ==
    IF ~Ok(m) THEN m
    ELSE IF bits <= _remBitsInBuf(m) THEN LogTry(Ret(m, TRUE), bits)
    ELSE LET head == m.pos.headOffsetInCurPktBits
             flooredHeadOffsetInCurPacketBytes == (head - (head % 8)) \div 8
             curPacketOffsetInElemSeqBytes == m.pos.curPktOffsetInElemSeqBits \div 8
             bitInByte == head % 8
         IN  LogTry(_newDataBlock(m, curPacketOffsetInElemSeqBytes
                                     + flooredHeadOffsetInCurPacketBytes,
                                  (bits + 7 + bitInByte) \div 8),
                    bits)

ThrowUnlessRet(m, e) == IF Ok(m) /\ ~m.ret THEN Throw(m, e) ELSE m

_requireBits(m, bits) == ThrowUnlessRet(_tryHaveBits(m, bits), "PrematureEndOfData")

\* history of a call of _requireContentBits(): m0 before, m1 after
ReqRet(m0, m1, bits) ==
    Log(m1, [op |-> "requireContentBits", bits |-> bits,
             remContent |-> remContentBitsInPkt(m0.pos),
             head0 |-> m0.pos.headOffsetInCurPktBits,
             head1 |-> m1.pos.headOffsetInCurPktBits,
             calls |-> Len(m1.gh.log) - Len(m0.gh.log),
             err |-> m1.err])

\* variant: the data is required before the content length is looked at
_requireContentBitsDataFirst(m, bits) ==
    IF ~Ok(m) THEN m
    ELSE ReqRet(m,
                IF Ok(_requireBits(m, bits)) /\ bits > remContentBitsInPkt(m.pos)
                THEN Throw(_requireBits(m, bits), "CannotDecodeDataBeyondPacketContent")
                ELSE _requireBits(m, bits),
                bits)

_requireContentBits(m, bits) ==
    IF ~Ok(m) THEN m
    ELSE ReqRet(m,
                IF bits > remContentBitsInPkt(m.pos)
                THEN Throw(m, "CannotDecodeDataBeyondPacketContent")
                ELSE _requireBits(m, bits),
                bits)

\* history: bits are read or consumed that the window does not hold
OverWindow(m, bits) ==
    [Throw(m, Undefined) EXCEPT !.gh.over = <<bits, _remBitsInBuf(m)>>]

\* assert(bitsToConsume <= _remBitsInBuf()): consuming bits that the window
\* does not hold is undefined behaviour
_consumeExistingBits(m, bitsToConsume) ==
    IF ~Ok(m) THEN m
    ELSE IF bitsToConsume > _remBitsInBuf(m) THEN OverWindow(m, bitsToConsume)
    ELSE [m EXCEPT !.pos.headOffsetInCurPktBits = @ + bitsToConsume]

_resetBuffer(m) ==
    [m EXCEPT !.buf = [addr |-> -1, len |-> 0, off |-> m.pos.headOffsetInCurPktBits]]

\* bit address, within the data of the source, of the head: _bufAtHead() plus
\* the bit within that byte
HeadBitAddr(m) == m.buf.addr * 8 + (m.pos.headOffsetInCurPktBits - m.buf.off)

ByteAt(m, i) == m.src.data[i + 1]

\* int-reader kernels: bit i of a field in a stream of the given byte order
BitAt(m, a, bo) ==
    (ByteAt(m, a \div 8) \div Pow2(IF bo = "le" THEN a % 8 ELSE 7 - (a % 8))) % 2

RECURSIVE SumBits(_, _, _, _, _)
SumBits(m, a, len, bo, i) ==
    IF i = len THEN 0
    ELSE BitAt(m, a + i, bo) * Pow2(IF bo = "le" THEN i ELSE len - 1 - i)
         + SumBits(m, a, len, bo, i + 1)

ToSigned(u, len) == IF u >= Pow2(len - 1) THEN u - Pow2(len) ELSE u

ReadBits(m, len, bo, sgn) ==
    IF sgn THEN ToSigned(SumBits(m, HeadBitAddr(m), len, bo, 0), len)
    ELSE SumBits(m, HeadBitAddr(m), len, bo, 0)

(***************************************************************************)
(* Iterator updates                                                        *)
(***************************************************************************)
\* history of the emissions: the (offset, mark) of this element and of the
\* one before it, the scopes that are open, the offsets at which the packet and its
\* content began, the last two clock values of the packet
GhEmit(m, offset, site) ==
    [m.gh EXCEPT
        !.emits = @ + 1,
        !.site = site,
        !.prevSite = m.gh.site,
        !.prev = m.gh.cur,
        !.cur = <<offset, UAdd(m.it.mark, 1)>>,
        !.open = IF site[1] = "begin" THEN Append(@, site[2])
                 ELSE IF site[1] = "end" /\ @ # <<>> /\ @[Len(@)] = site[2]
                 THEN SubSeq(@, 1, Len(@) - 1)
                 ELSE @,
        !.nestOk = @ /\ (site[1] = "end"
                         => m.gh.open # <<>> /\ m.gh.open[Len(m.gh.open)] = site[2]),
        !.pktBegin = IF site = <<"begin", "Pkt">> THEN offset ELSE @,
        !.contentBegin = IF site = <<"begin", "PktContent">> THEN offset ELSE @,
        !.clk = IF site = <<"data", "defClkVal">>
                THEN [prev |-> @.cur, cur |-> <<m.pos.defClkVal>>,
                      len |-> @.len, ovf |-> @.ovf, old |-> @.old, v |-> @.v]
                ELSE IF site = <<"begin", "Pkt">>
                THEN [prev |-> <<>>, cur |-> <<>>, len |-> 0, ovf |-> FALSE,
                      old |-> 0, v |-> 0]
                ELSE @]

_updateIt(m, elem, offset, site) ==
    IF ~Ok(m) THEN m
    ELSE [m EXCEPT !.it = [elem |-> elem, offset |-> offset, mark |-> UAdd(m.it.mark, 1)],
                   !.gh = GhEmit(m, offset, site)]

_updateItCurOffset(m, elem, site) ==
    _updateIt(m, elem, headOffsetInElemSeqBits(m.pos), site)

_setItEnd(m) == [m EXCEPT !.it.mark = 0, !.it.offset = END_OFFSET]

\* variant: the mark goes on from the one of the last packet
_resetItMarkKeep(m) == m

_resetItMark(m) == [m EXCEPT !.it.mark = 0]

\* elem = val, for a member elem of _pos.elems
SetElem(m, elem, val) == IF Ok(m) THEN [m EXCEPT !.pos.elems[elem] = val] ELSE m

(***************************************************************************)
(* Alignment and padding                                                   *)
(***************************************************************************)
\* one turn of the loop of _continueSkipPaddingBits(), after its require
\* history: what a turn of the loop found
LogSkip(m) ==
    [m EXCEPT !.gh.skips =
        Append(@, [rem |-> m.pos.remBitsToSkip, inBuf |-> _remBitsInBuf(m),
                   head |-> m.pos.headOffsetInCurPktBits])]

\* variant: a turn consumes what is left in the window
SkipBitsWholeWindow(m) ==
    IF ~Ok(m) THEN m
    ELSE _consumeExistingBits(
             [LogSkip(m) EXCEPT !.pos.remBitsToSkip =
                                    @ - Min(m.pos.remBitsToSkip, _remBitsInBuf(m))],
             _remBitsInBuf(m))

SkipBits(m) ==
    IF ~Ok(m) THEN m
    ELSE _consumeExistingBits(
             [LogSkip(m) EXCEPT !.pos.remBitsToSkip =
                                    @ - Min(m.pos.remBitsToSkip, _remBitsInBuf(m))],
             Min(m.pos.remBitsToSkip, _remBitsInBuf(m)))

RECURSIVE _continueSkipPaddingBits(_, _)
_continueSkipPaddingBits(m, contentBits) ==
    IF ~Ok(m) THEN m
    ELSE IF m.pos.remBitsToSkip > 0
    THEN _continueSkipPaddingBits(
             SkipBits(IF contentBits THEN _requireContentBits(m, 1)
                      ELSE _requireBits(m, 1)),
             contentBits)
    ELSE state(m, m.pos.postSkipBitsState)

\* history: what a call of _alignHead() found in m and left in res
LogAlign(m, res, align) ==
    [res EXCEPT !.gh.align =
        Append(@, [align |-> align, head |-> m.pos.headOffsetInCurPktBits,
                   st |-> m.pos.theState, rem |-> remContentBitsInPkt(m.pos),
                   skip |-> m.pos.remBitsToSkip,
                   err |-> res.err, newHead |-> res.pos.headOffsetInCurPktBits,
                   newSt |-> res.pos.theState, newSkip |-> res.pos.remBitsToSkip])]

\* variant: the state after the padding is not the state before it
_alignHeadKeepPostState(m, align) ==
    LET head == m.pos.headOffsetInCurPktBits
        bitsToSkip == ((head + align - 1) \div align) * align - head
    IN  IF ~Ok(m) THEN m
        ELSE IF bitsToSkip = 0 THEN LogAlign(m, m, align)
        ELSE IF bitsToSkip > remContentBitsInPkt(m.pos)
        THEN LogAlign(m, Throw(m, "CannotDecodeDataBeyondPacketContent"), align)
        ELSE LogAlign(m, _continueSkipPaddingBits(
                             [m EXCEPT !.pos.remBitsToSkip = bitsToSkip,
                                       !.pos.theState =
                                           "CONTINUE_SKIP_CONTENT_PADDING_BITS"],
                             TRUE), align)

_alignHead(m, align) ==
    LET head == m.pos.headOffsetInCurPktBits
        bitsToSkip == ((head + align - 1) \div align) * align - head
    IN  IF ~Ok(m) THEN m
        ELSE IF bitsToSkip = 0 THEN LogAlign(m, m, align)
        ELSE IF bitsToSkip > remContentBitsInPkt(m.pos)
        THEN LogAlign(m, Throw(m, "CannotDecodeDataBeyondPacketContent"), align)
        ELSE LogAlign(m, _continueSkipPaddingBits(
                             [m EXCEPT !.pos.remBitsToSkip = bitsToSkip,
                                       !.pos.postSkipBitsState = m.pos.theState,
                                       !.pos.theState =
                                           "CONTINUE_SKIP_CONTENT_PADDING_BITS"],
                             TRUE), align)

(***************************************************************************)
(* Instruction handlers: each leaves its reaction in m.reaction            *)
(***************************************************************************)
ScopeNum(sc) ==
    CASE sc = "PH" -> 0 [] sc = "PC" -> 1 [] sc = "EH" -> 2 [] sc = "ERCC" -> 3
      [] sc = "ERSC" -> 4 [] OTHER -> 5

\* _setIntElemBase(): lastIntVal holds the value as an unsigned word
_setIntElem(m, val, instr) ==
    IF ~Ok(m) THEN m
    ELSE _updateItCurOffset(
             SetElem([m EXCEPT !.pos.lastIntVal = val % WordMod],
                     IF instr.sgn THEN "sInt" ELSE "uInt", <<val>>),
             IF instr.sgn THEN "sInt" ELSE "uInt",
             <<"data", IF instr.sgn THEN "sInt" ELSE "uInt">>)

_execReadBitArrayPreamble(m, instr, len) ==
    _requireContentBits(_alignHead(m, instr.align), len)

\* Func(_bufAtHead()) after the preamble: reading bits that the window does not
\* hold is undefined behaviour
\* history: a bit array is read at the head, or refused there
LogRead(m, instr) ==
    Log(m, [op |-> "readBitArray", head |-> m.pos.headOffsetInCurPktBits,
            bo |-> instr.bo, lastBo |-> m.pos.lastBo, len |-> instr.len])

ReadAtHead(m, instr) ==
    IF ~Ok(m) THEN m
    ELSE IF instr.len > _remBitsInBuf(m) THEN OverWindow(m, instr.len)
    ELSE _consumeExistingBits(
             _setIntElem([LogRead(m, instr) EXCEPT !.pos.lastBo = instr.bo],
                         ReadBits(m, instr.len, instr.bo, instr.sgn), instr),
             instr.len)

_execReadStdInt(m, instr) ==
    ReadAtHead(_execReadBitArrayPreamble(m, instr, instr.len), instr)

\* variant: the byte order is never checked
CheckBoNever(m, instr) == m

\* the byte order check of _readInt()
CheckBo(m, instr) ==
    IF /\ Ok(m)
       /\ m.pos.lastBo # "none"
       /\ m.pos.headOffsetInCurPktBits % 8 # 0
       /\ instr.bo # m.pos.lastBo
    THEN Throw(LogRead(m, instr), "ByteOrderChangeWithinByte")
    ELSE m

_execReadInt(m, instr) ==
    ReadAtHead(CheckBo(_execReadBitArrayPreamble(m, instr, instr.len), instr), instr)

\* _pos.postEndStrState = _pos.state(); _pos.state(READ_SUBSTR_UNTIL_NULL)
BeginStr(m) ==
    IF ~Ok(m) THEN m
    ELSE [m EXCEPT !.pos.postEndStrState = m.pos.theState,
                   !.pos.theState = "READ_SUBSTR_UNTIL_NULL"]

\* variant: the head is not aligned
_execReadStrNoAlign(m, instr) ==
    React(BeginStr(_updateItCurOffset(m, "strBeginning", <<"begin", "Str">>)),
          "FETCH_NEXT_INSTR_AND_STOP")

_execReadStr(m, instr) ==
    React(BeginStr(_updateItCurOffset(_alignHead(m, instr.align), "strBeginning",
                                      <<"begin", "Str">>)),
          "FETCH_NEXT_INSTR_AND_STOP")

_execBeginReadScope(m, instr) ==
    React(stackPush(
              gotoNextInstr(
                  _updateItCurOffset(
                      SetElem(_alignHead(m, instr.align), "scopeBeginning",
                              <<ScopeNum(instr.scope)>>),
                      "scopeBeginning", <<"begin", "Scope">>)),
              instr.proc),
          "STOP")

\* assert(_pos.state() == VmState::EXEC_INSTR)
EnsureState(m, states) == Ensure(m, m.pos.theState \in states)

_execEndReadScope(m, instr) ==
    React(EnsureState(stackPop(_updateItCurOffset(m, "end", <<"end", "Scope">>)),
                      {"EXEC_INSTR"}),
          "STOP")

_execBeginReadStruct(m, instr) ==
    React(state(stackPush(
                    gotoNextInstr(
                        _updateItCurOffset(_alignHead(m, instr.align), "structBeginning",
                                           <<"begin", "Struct">>)),
                    instr.proc),
                "EXEC_INSTR"),
          "STOP")

\* variant: the end of the structure is not emitted
_execEndReadStructSilent(m, instr) == React(setParentStateAndStackPop(m), "STOP")

_execEndReadStruct(m, instr) ==
    React(setParentStateAndStackPop(_updateItCurOffset(m, "end", <<"end", "Struct">>)),
          "STOP")

\* _pos.stackTop().remElems = len
SetRemElems(m, len) ==
    IF Ok(m) THEN [m EXCEPT !.pos.stack[Len(m.pos.stack)].remElems = len] ELSE m

_execBeginReadStaticArrayCommon(m, instr, elem, tag, nextState) ==
    state(SetRemElems(
              stackPush(
                  gotoNextInstr(
                      _updateItCurOffset(
                          SetElem(_alignHead(m, instr.align), elem, <<instr.len>>),
                          elem, <<"begin", tag>>)),
                  instr.proc),
              instr.len),
          nextState)

\* history: a saved value is read as a length or as a selector
LogSavedVal(m, instr) ==
    IF ~Ok(m) THEN m
    ELSE Log(m, [op |-> "savedVal", kind |-> instr.kind, pos |-> instr.pos,
                 val |-> savedVal(m.pos, instr.pos)])

_execBeginReadDynArrayCommon(m, instr, elem, tag, nextState) ==
    state(SetRemElems(
              stackPush(
                  gotoNextInstr(
                      _updateItCurOffset(
                          SetElem(_alignHead(
                                      Ensure(LogSavedVal(m, instr),
                                             savedVal(m.pos, instr.pos) # SAVED_VAL_UNSET),
                                      instr.align),
                                  elem, <<savedVal(m.pos, instr.pos)>>),
                          elem, <<"begin", tag>>)),
                  instr.proc),
              savedVal(m.pos, instr.pos)),
          nextState)

\* history: an array begins, its element procedure not yet executed
ArrBegin(m, elem) ==
    IF ~Ok(m) THEN m
    ELSE [m EXCEPT !.gh.execs = Append(@, [n |-> m.pos.elems[elem][1], started |-> 0,
                                           done |-> 0])]

\* history: the first instruction of the element procedure has executed
ArrElemStarted(m, res) ==
    IF Ok(m) /\ Ok(res) /\ m.gh.execs # <<>> /\ stackTop(m.pos).it = 1
    THEN [res EXCEPT !.gh.execs[Len(m.gh.execs)].started = @ + 1]
    ELSE res

\* history: the end of the element procedure is reached
ArrElemDone(m) ==
    IF Ok(m) /\ m.gh.execs # <<>>
    THEN [m EXCEPT !.gh.execs[Len(m.gh.execs)].done = @ + 1]
    ELSE m

\* history: the frame of the array is popped
ArrEnd(m) ==
    IF Ok(m) /\ m.gh.execs # <<>>
    THEN [m EXCEPT !.gh.execs = SubSeq(@, 1, Len(@) - 1),
                   !.gh.arrDone = <<m.gh.execs[Len(m.gh.execs)]>>]
    ELSE m

_execBeginReadStaticArray(m, instr) ==
    React(ArrBegin(_execBeginReadStaticArrayCommon(m, instr, "staticArrayBeginning",
                                                   "StaticArray", "EXEC_ARRAY_INSTR"),
                   "staticArrayBeginning"), "STOP")

_execEndReadStaticArray(m, instr) ==
    React(_updateItCurOffset(m, "end", <<"end", "StaticArray">>),
          "FETCH_NEXT_INSTR_AND_STOP")

_execBeginReadStaticTextArray(m, instr) ==
    React(_execBeginReadStaticArrayCommon(m, instr, "staticTextArrayBeginning",
                                          "StaticTextArray", "READ_SUBSTR"), "STOP")

_execEndReadStaticTextArray(m, instr) ==
    React(_updateItCurOffset(m, "end", <<"end", "StaticTextArray">>),
          "FETCH_NEXT_INSTR_AND_STOP")

_execBeginReadStaticUuidArray(m, instr) ==
    React(_execBeginReadStaticArrayCommon(m, instr, "staticArrayBeginning", "StaticArray",
                                          "READ_UUID_BYTE"), "STOP")

_execBeginReadDynArray(m, instr) ==
    React(ArrBegin(_execBeginReadDynArrayCommon(m, instr, "dynArrayBeginning", "DynArray",
                                                "EXEC_ARRAY_INSTR"),
                   "dynArrayBeginning"), "STOP")

_execEndReadDynArray(m, instr) ==
    React(_updateItCurOffset(m, "end", <<"end", "DynArray">>), "FETCH_NEXT_INSTR_AND_STOP")

_execBeginReadDynTextArray(m, instr) ==
    React(_execBeginReadDynArrayCommon(m, instr, "dynTextArrayBeginning", "DynTextArray",
                                       "READ_SUBSTR"), "STOP")

_execEndReadDynTextArray(m, instr) ==
    React(_updateItCurOffset(m, "end", <<"end", "DynTextArray">>),
          "FETCH_NEXT_INSTR_AND_STOP")

\* static_cast<std::int64_t>(uSelVal)
AsSigned(u) == IF u >= WordMod \div 2 THEN u - WordMod ELSE u

\* variant: the procedure of the last option that contains selVal
procForSelValLast(instr, selVal) ==
    LET hits == {i \in 1 .. Len(instr.opts) :
                    instr.opts[i].lower <= selVal /\ selVal <= instr.opts[i].upper}
    IN  IF hits = {} THEN ""
        ELSE instr.opts[CHOOSE i \in hits : \A j \in hits : j <= i].proc

\* BeginReadVarInstr::procForSelVal(): the procedure of the first option that
\* contains selVal, "" if none
procForSelVal(instr, selVal) ==
    LET hits == {i \in 1 .. Len(instr.opts) :
                    instr.opts[i].lower <= selVal /\ selVal <= instr.opts[i].upper}
    IN  IF hits = {} THEN ""
        ELSE instr.opts[CHOOSE i \in hits : \A j \in hits : i <= j].proc

\* _execBeginReadVar() once the head is aligned
BeginVar(m, instr, signed, elem) ==
    LET selVal == IF signed THEN AsSigned(savedVal(m.pos, instr.pos))
                  ELSE savedVal(m.pos, instr.pos)
    IN  IF ~Ok(m) THEN m
        ELSE IF procForSelVal(instr, selVal) = ""
        THEN Throw(m, IF signed THEN "InvalidVariantSignedSelectorValue"
                      ELSE "InvalidVariantUnsignedSelectorValue")
        ELSE state(stackPush(
                       gotoNextInstr(
                           _updateItCurOffset(SetElem(m, elem, <<selVal>>), elem,
                                              <<"begin", "Var">>)),
                       procForSelVal(instr, selVal)),
                   "EXEC_INSTR")

_execBeginReadVar(m, instr, signed, elem) ==
    BeginVar(LogSavedVal(_alignHead(m, instr.align), instr), instr, signed, elem)

_execBeginReadVarSSel(m, instr) ==
    React(_execBeginReadVar(m, instr, TRUE, "varSSelBeginning"), "STOP")

_execBeginReadVarUSel(m, instr) ==
    React(_execBeginReadVar(m, instr, FALSE, "varUSelBeginning"), "STOP")

_execEndReadVar(m, instr) ==
    React(setParentStateAndStackPop(_updateItCurOffset(m, "end", <<"end", "Var">>)),
          "STOP")

_execSaveVal(m, instr) == React(saveVal(m, instr.pos), "EXEC_NEXT_INSTR")

_execSetPktEndDefClkVal(m, instr) ==
    React([m EXCEPT !.pos.elems["pktInfo"][4] = m.pos.lastIntVal], "EXEC_NEXT_INSTR")

\* history: the length of the update, the clock value before it, the integer
\* it takes its low bits from and whether the addition of the wrap overflowed
\* the word
ClkHist(m, len) ==
    [m EXCEPT !.gh.clk.len = len,
              !.gh.clk.old = m.pos.defClkVal,
              !.gh.clk.v = m.pos.lastIntVal,
              !.gh.clk.ovf = /\ len < WordBits
                             /\ m.pos.lastIntVal < LowBits(m.pos.defClkVal, len)
                             /\ m.pos.defClkVal + Pow2(len) >= WordMod]

_execUpdateDefClkVal(m, instr) ==
    React(_updateItCurOffset(
              SetElem([ClkHist(m, instr.len) EXCEPT
                          !.pos.defClkVal = updateDefClkVal(m.pos, instr.len)],
                      "defClkVal", <<updateDefClkVal(m.pos, instr.len)>>),
              "defClkVal", <<"data", "defClkVal">>),
          "FETCH_NEXT_INSTR_AND_STOP")

_execSetCurrentId(m, instr) ==
    React([m EXCEPT !.pos.curId = m.pos.lastIntVal], "EXEC_NEXT_INSTR")

\* fixedId() ? *fixedId() : _pos.curId
\* variant: the fixed ID of the instruction is ignored
TypeIdCur(m, instr) == m.pos.curId

TypeId(m, instr) == IF instr.fixedId # -1 THEN instr.fixedId ELSE m.pos.curId

\* history: SET_DST or SET_ERT is executed
LogSetType(m, instr) ==
    IF ~Ok(m) THEN m
    ELSE Log(m, [op |-> "setType", kind |-> instr.kind, fixedId |-> instr.fixedId,
                 curId |-> m.pos.curId, dst |-> m.pos.curDsPktProc])

\* variant: the data stream type is set before the ID is looked up
SetDstThenCheck(m, id) ==
    IF ~Ok(m) THEN m
    ELSE IF id \notin DOMAIN PktProcs[m.pos.pktProc].dsts
    THEN ThrowAt([m EXCEPT !.pos.curDsPktProc = id], "UnknownDataStreamType",
                 headOffsetInElemSeqBits(m.pos), id)
    ELSE React([m EXCEPT !.pos.curDsPktProc = id, !.pos.elems["dsInfo"][2] = id],
               "EXEC_NEXT_INSTR")

\* _execSetDst() once the ID is known
SetDst(m, id) ==
    IF ~Ok(m) THEN m
    ELSE IF id \notin DOMAIN PktProcs[m.pos.pktProc].dsts
    THEN ThrowAt(m, "UnknownDataStreamType", headOffsetInElemSeqBits(m.pos), id)
    ELSE React([m EXCEPT !.pos.curDsPktProc = id, !.pos.elems["dsInfo"][2] = id],
               "EXEC_NEXT_INSTR")

_execSetDst(m, instr) == SetDst(LogSetType(m, instr), TypeId(m, instr))

CurDsPktProc(p) == PktProcs[p.pktProc].dsts[p.curDsPktProc]

\* _execSetErt() once the ID is known
SetErt(m, id) ==
    IF ~Ok(m) THEN m
    ELSE IF m.pos.curDsPktProc = -1 THEN Throw(m, AssertionFailed)
    ELSE IF id \notin DOMAIN CurDsPktProc(m.pos).erts
    THEN ThrowAt(m, "UnknownEventRecordType", headOffsetInElemSeqBits(m.pos), id)
    ELSE React(SetElem([m EXCEPT !.pos.curErProc = id], "erInfo", <<id>>),
               "EXEC_NEXT_INSTR")

_execSetErt(m, instr) == SetErt(LogSetType(m, instr), TypeId(m, instr))

_execSetDsId(m, instr) ==
    React([m EXCEPT !.pos.elems["dsInfo"][1] = m.pos.lastIntVal], "EXEC_NEXT_INSTR")

_execSetPktOriginIndex(m, instr) ==
    React([m EXCEPT !.pos.elems["pktInfo"][3] = m.pos.lastIntVal], "EXEC_NEXT_INSTR")

\* variant: the candidate is compared with the head before it is compared
\* with the expected content length
_execSetPktTotalLenHeadFirst(m, instr) ==
    LET pktTotalSizeCandidateBits == m.pos.lastIntVal
    IN  IF pktTotalSizeCandidateBits % 8 # 0
        THEN Throw(m, "ExpectedPacketTotalLengthNotMultipleOf8")
        ELSE IF pktTotalSizeCandidateBits < m.pos.headOffsetInCurPktBits
        THEN Throw(m, "ExpectedPacketTotalLengthLessThanOffsetInPacket")
        ELSE IF /\ m.pos.curExpectedPktContentLenBits # SIZE_UNSET
                /\ pktTotalSizeCandidateBits < m.pos.curExpectedPktContentLenBits
        THEN Throw(m, "ExpectedPacketTotalLengthLessThanExpectedPacketContentLength")
        ELSE React([m EXCEPT
                       !.pos.curExpectedPktTotalLenBits = pktTotalSizeCandidateBits,
                       !.pos.curExpectedPktContentLenBits =
                           IF @ = SIZE_UNSET THEN pktTotalSizeCandidateBits ELSE @],
                   "EXEC_NEXT_INSTR")

\* variant: the expected content length is left as it is
_execSetPktTotalLenOnly(m, instr) ==
    LET pktTotalSizeCandidateBits == m.pos.lastIntVal
    IN  IF pktTotalSizeCandidateBits % 8 # 0
        THEN Throw(m, "ExpectedPacketTotalLengthNotMultipleOf8")
        ELSE IF /\ m.pos.curExpectedPktContentLenBits # SIZE_UNSET
                /\ pktTotalSizeCandidateBits < m.pos.curExpectedPktContentLenBits
        THEN Throw(m, "ExpectedPacketTotalLengthLessThanExpectedPacketContentLength")
        ELSE IF pktTotalSizeCandidateBits < m.pos.headOffsetInCurPktBits
        THEN Throw(m, "ExpectedPacketTotalLengthLessThanOffsetInPacket")
        ELSE React([m EXCEPT
                       !.pos.curExpectedPktTotalLenBits = pktTotalSizeCandidateBits],
                   "EXEC_NEXT_INSTR")

_execSetPktTotalLen(m, instr) ==
    LET pktTotalSizeCandidateBits == m.pos.lastIntVal
    IN  IF pktTotalSizeCandidateBits % 8 # 0
        THEN Throw(m, "ExpectedPacketTotalLengthNotMultipleOf8")
        ELSE IF /\ m.pos.curExpectedPktContentLenBits # SIZE_UNSET
                /\ pktTotalSizeCandidateBits < m.pos.curExpectedPktContentLenBits
        THEN Throw(m, "ExpectedPacketTotalLengthLessThanExpectedPacketContentLength")
        ELSE IF pktTotalSizeCandidateBits < m.pos.headOffsetInCurPktBits
        THEN Throw(m, "ExpectedPacketTotalLengthLessThanOffsetInPacket")
        ELSE React([m EXCEPT
                       !.pos.curExpectedPktTotalLenBits = pktTotalSizeCandidateBits,
                       !.pos.curExpectedPktContentLenBits =
                           IF @ = SIZE_UNSET THEN pktTotalSizeCandidateBits ELSE @],
                   "EXEC_NEXT_INSTR")

\* variant: the candidate is not compared with the expected total length
_execSetPktContentLenAnyTotal(m, instr) ==
    IF m.pos.lastIntVal < m.pos.headOffsetInCurPktBits
    THEN Throw(m, "ExpectedPacketContentLengthLessThanOffsetInPacket")
    ELSE React([m EXCEPT !.pos.curExpectedPktContentLenBits = m.pos.lastIntVal],
               "EXEC_NEXT_INSTR")

_execSetPktContentLen(m, instr) ==
    LET pktContentSizeCandidateBits == m.pos.lastIntVal
    IN  IF /\ m.pos.curExpectedPktTotalLenBits # SIZE_UNSET
           /\ m.pos.curExpectedPktTotalLenBits < pktContentSizeCandidateBits
        THEN Throw(m, "ExpectedPacketTotalLengthLessThanExpectedPacketContentLength")
        ELSE IF pktContentSizeCandidateBits < m.pos.headOffsetInCurPktBits
        THEN Throw(m, "ExpectedPacketContentLengthLessThanOffsetInPacket")
        ELSE React([m EXCEPT
                       !.pos.curExpectedPktContentLenBits = pktContentSizeCandidateBits],
                   "EXEC_NEXT_INSTR")

\* history: the candidate, the head and the expected lengths an instruction
\* that sets an expected length found in m, and what it left in res
LogSetLen(m, res, op) ==
    [res EXCEPT !.gh.log =
        Append(@, [op |-> op, cand |-> m.pos.lastIntVal,
                   head |-> m.pos.headOffsetInCurPktBits,
                   total |-> m.pos.curExpectedPktTotalLenBits,
                   content |-> m.pos.curExpectedPktContentLenBits,
                   err |-> res.err,
                   newTotal |-> res.pos.curExpectedPktTotalLenBits,
                   newContent |-> res.pos.curExpectedPktContentLenBits])]

\* variant: the next instruction is executed in the same advance
_execSetDsInfoGoOn(m, instr) ==
    React(_updateItCurOffset(m, "dsInfo", <<"data", "dsInfo">>), "EXEC_NEXT_INSTR")

_execSetDsInfo(m, instr) ==
    React(_updateItCurOffset(m, "dsInfo", <<"data", "dsInfo">>),
          "FETCH_NEXT_INSTR_AND_STOP")

\* boost::none is -1
LenOrNone(len) == IF len # SIZE_UNSET THEN len ELSE -1

_execSetPktInfo(m, instr) ==
    React(_updateItCurOffset(
              [m EXCEPT
                  !.pos.elems["pktInfo"][1] = LenOrNone(m.pos.curExpectedPktTotalLenBits),
                  !.pos.elems["pktInfo"][2] =
                      LenOrNone(m.pos.curExpectedPktContentLenBits)],
              "pktInfo", <<"data", "pktInfo">>),
          "FETCH_NEXT_INSTR_AND_STOP")

_execSetErInfo(m, instr) ==
    React(_updateItCurOffset(m, "erInfo", <<"data", "erInfo">>),
          "FETCH_NEXT_INSTR_AND_STOP")

_execSetPktMagicNumber(m, instr) ==
    React(_updateItCurOffset(SetElem(m, "pktMagicNumber", <<m.pos.lastIntVal>>),
                             "pktMagicNumber", <<"data", "pktMagicNumber">>),
          "FETCH_NEXT_INSTR_AND_STOP")

\* _pos.stackPop(); assert(_pos.stack.empty())
PopLast(m) == Ensure(stackPop(LogProc(m, nextInstr(m.pos).kind)), Len(m.pos.stack) = 1)

\* _execEndPktPreambleProc() once the frame is popped
AfterPktPreamble(m) ==
    IF ~Ok(m) THEN m
    ELSE IF m.pos.curDsPktProc # -1
    THEN React(loadNewProc(m, CurDsPktProc(m.pos).pktPreambleProc), "EXEC_CUR_INSTR")
    ELSE React(state(m, "END_PKT_CONTENT"), "CHANGE_STATE")

_execEndPktPreambleProc(m, instr) == AfterPktPreamble(PopLast(m))

_execEndDsPktPreambleProc(m, instr) ==
    React(state(Ensure(PopLast(m), m.pos.curDsPktProc # -1), "BEGIN_ER"), "CHANGE_STATE")

\* _execEndDsErPreambleProc() once the frame is popped
AfterErPreamble(m) ==
    IF ~Ok(m) THEN m
    ELSE React(loadNewProc(m, CurDsPktProc(m.pos).erts[m.pos.curErProc]),
               "EXEC_CUR_INSTR")

_execEndDsErPreambleProc(m, instr) ==
    AfterErPreamble(Ensure(PopLast(m), m.pos.curErProc # -1))

\* variant: the next event record begins without the End of this one
_execEndErProcNoEnd(m, instr) == React(state(PopLast(m), "BEGIN_ER"), "CHANGE_STATE")

_execEndErProc(m, instr) == React(state(PopLast(m), "END_ER"), "CHANGE_STATE")

\* _execFuncs[instr.kind()]
_exec(m, instr) ==
    LET k == instr.kind
    IN  CASE k \in {"READ_UINT_A8", "READ_SINT_A8", "READ_UINT_A16_LE", "READ_UINT_A16_BE"} ->
                React(_execReadStdInt(m, instr), "FETCH_NEXT_INSTR_AND_STOP")
          [] k \in {"READ_UINT_LE", "READ_UINT_BE"} ->
                React(_execReadInt(m, instr), "FETCH_NEXT_INSTR_AND_STOP")
          [] k = "READ_STR" -> _execReadStr(m, instr)
          [] k = "BEGIN_READ_SCOPE" -> _execBeginReadScope(m, instr)
          [] k = "END_READ_SCOPE" -> _execEndReadScope(m, instr)
          [] k = "BEGIN_READ_STRUCT" -> _execBeginReadStruct(m, instr)
          [] k = "END_READ_STRUCT" -> _execEndReadStruct(m, instr)
          [] k = "BEGIN_READ_STATIC_ARRAY" -> _execBeginReadStaticArray(m, instr)
          [] k = "END_READ_STATIC_ARRAY" -> _execEndReadStaticArray(m, instr)
          [] k = "BEGIN_READ_STATIC_TEXT_ARRAY" -> _execBeginReadStaticTextArray(m, instr)
          [] k = "END_READ_STATIC_TEXT_ARRAY" -> _execEndReadStaticTextArray(m, instr)
          [] k = "BEGIN_READ_STATIC_UUID_ARRAY" -> _execBeginReadStaticUuidArray(m, instr)
          [] k = "BEGIN_READ_DYN_ARRAY" -> _execBeginReadDynArray(m, instr)
          [] k = "END_READ_DYN_ARRAY" -> _execEndReadDynArray(m, instr)
          [] k = "BEGIN_READ_DYN_TEXT_ARRAY" -> _execBeginReadDynTextArray(m, instr)
          [] k = "END_READ_DYN_TEXT_ARRAY" -> _execEndReadDynTextArray(m, instr)
          [] k = "BEGIN_READ_VAR_SSEL" -> _execBeginReadVarSSel(m, instr)
          [] k = "BEGIN_READ_VAR_USEL" -> _execBeginReadVarUSel(m, instr)
          [] k = "END_READ_VAR" -> _execEndReadVar(m, instr)
          [] k = "SAVE_VAL" -> _execSaveVal(m, instr)
          [] k = "SET_PKT_END_DEF_CLK_VAL" -> _execSetPktEndDefClkVal(m, instr)
          [] k = "UPDATE_DEF_CLK_VAL" -> _execUpdateDefClkVal(m, instr)
          [] k = "SET_CUR_ID" -> _execSetCurrentId(m, instr)
          [] k = "SET_DST" -> _execSetDst(m, instr)
          [] k = "SET_ERT" -> _execSetErt(m, instr)
          [] k = "SET_DS_ID" -> _execSetDsId(m, instr)
          [] k = "SET_PKT_ORIGIN_INDEX" -> _execSetPktOriginIndex(m, instr)
          [] k = "SET_PKT_TOTAL_LEN" ->
                LogSetLen(m, _execSetPktTotalLen(m, instr), "setPktTotalLen")
          [] k = "SET_PKT_CONTENT_LEN" ->
                LogSetLen(m, _execSetPktContentLen(m, instr), "setPktContentLen")
          [] k = "SET_PKT_MAGIC_NUMBER" -> _execSetPktMagicNumber(m, instr)
          [] k = "END_PKT_PREAMBLE_PROC" -> _execEndPktPreambleProc(m, instr)
          [] k = "END_DS_PKT_PREAMBLE_PROC" -> _execEndDsPktPreambleProc(m, instr)
          [] k = "END_DS_ER_PREAMBLE_PROC" -> _execEndDsErPreambleProc(m, instr)
          [] k = "END_ER_PROC" -> _execEndErProc(m, instr)
          [] k = "SET_DS_INFO" -> _execSetDsInfo(m, instr)
          [] k = "SET_PKT_INFO" -> _execSetPktInfo(m, instr)
          [] k = "SET_ER_INFO" -> _execSetErInfo(m, instr)

(***************************************************************************)
(* State handlers: each leaves in m.ret what _handleState() returns (TRUE: *)
(* nextElem() is done)                                                     *)
(***************************************************************************)
\* *stackTop().it on an empty stack or at the end of the procedure
NoInstr(p) == p.stack = <<>> \/ AtProcEnd(p)

\* the instructions that validate what they set
ValidatingInstrs ==
    {"SET_PKT_TOTAL_LEN", "SET_PKT_CONTENT_LEN", "SET_DST", "SET_ERT",
     "BEGIN_READ_VAR_SSEL", "BEGIN_READ_VAR_USEL"}

\* what the validating instructions guard
Guarded(m) ==
    [total |-> m.pos.curExpectedPktTotalLenBits,
     content |-> m.pos.curExpectedPktContentLenBits,
     curDsPktProc |-> m.pos.curDsPktProc, curErProc |-> m.pos.curErProc,
     stack |-> m.pos.stack, it |-> m.it]

\* history: a validating instruction found m and raised an error, leaving res
LogGuard(m, res, instr) ==
    IF instr.kind \in ValidatingInstrs /\ ~Ok(res)
    THEN [res EXCEPT !.gh.guard = <<[kind |-> instr.kind, err |-> res.err,
                                     pre |-> Guarded(m), post |-> Guarded(res)]>>]
    ELSE res

\* this->_exec(_pos.nextInstr())
ExecNextInstr(m) ==
    IF ~Ok(m) THEN m
    ELSE IF NoInstr(m.pos) THEN Throw(m, Undefined)
    ELSE LogGuard(m, _exec(m, nextInstr(m.pos)), nextInstr(m.pos))

RECURSIVE _stateExecInstr(_), SwitchReaction(_)
\* the switch of _stateExecInstr() on the reaction of the handler
SwitchReaction(m) ==
    IF ~Ok(m) THEN Ret(m, TRUE)
    ELSE CASE m.reaction = "FETCH_NEXT_INSTR_AND_STOP" -> Ret(gotoNextInstr(m), TRUE)
           [] m.reaction = "STOP" -> Ret(m, TRUE)
           [] m.reaction = "EXEC_NEXT_INSTR" -> _stateExecInstr(gotoNextInstr(m))
           [] m.reaction = "EXEC_CUR_INSTR" -> _stateExecInstr(m)
           [] m.reaction = "CHANGE_STATE" -> Ret(m, FALSE)
           [] OTHER -> Ret(Throw(m, "Aborted"), TRUE)

_stateExecInstr(m) == SwitchReaction(ExecNextInstr(m))

\* --stackTop.remElems
DecRemElems(m) ==
    IF stackTop(m.pos).remElems = 0 THEN Throw(m, AssertionFailed)
    ELSE [m EXCEPT !.pos.stack[Len(m.pos.stack)].remElems = @ - 1]

\* stackTop.it = stackTop.proc->begin()
Rewind(m) == [m EXCEPT !.pos.stack[Len(m.pos.stack)].it = 1]

RECURSIVE ExecArrayLoop(_), SwitchArrayReaction(_), NextArrayElem(_)
\* the switch of _stateExecArrayInstr() on the reaction of the handler
SwitchArrayReaction(m) ==
    IF ~Ok(m) THEN Ret(m, TRUE)
    ELSE CASE m.reaction = "FETCH_NEXT_INSTR_AND_STOP" -> Ret(gotoNextInstr(m), TRUE)
           [] m.reaction = "STOP" -> Ret(m, TRUE)
           [] m.reaction = "EXEC_NEXT_INSTR" -> ExecArrayLoop(gotoNextInstr(m))
           [] OTHER -> Ret(Throw(m, "Aborted"), TRUE)

\* variant: the array ends with one element left
NextArrayElemOneShort(m) ==
    IF ~Ok(m) THEN Ret(m, TRUE)
    ELSE IF stackTop(m.pos).remElems <= 1
    THEN Ret(ArrEnd(setParentStateAndStackPop(m)), FALSE)
    ELSE ExecArrayLoop(Rewind(m))

\* the end of the procedure of the element, its count decremented
NextArrayElem(m) ==
    IF ~Ok(m) THEN Ret(m, TRUE)
    ELSE IF stackTop(m.pos).remElems = 0
    THEN Ret(ArrEnd(setParentStateAndStackPop(m)), FALSE)
    ELSE ExecArrayLoop(Rewind(m))

\* the loop of _stateExecArrayInstr()
ExecArrayLoop(m) ==
    IF ~Ok(m) THEN Ret(m, TRUE)
    ELSE IF AtProcEnd(m.pos) THEN NextArrayElem(ArrElemDone(DecRemElems(m)))
    ELSE SwitchArrayReaction(ArrElemStarted(m, ExecNextInstr(m)))

_stateExecArrayInstr(m) ==
    IF m.pos.stack = <<>> THEN Ret(Throw(m, Undefined), TRUE)
    ELSE IF stackTop(m.pos).remElems = 0
    THEN Ret(ArrEnd(setParentStateAndStackPop(m)), FALSE)
    ELSE ExecArrayLoop(m)

\* _pos.state(_pos.postSkipBitsState)
PostSkipBitsState(m) == state(m, m.pos.postSkipBitsState)

_stateContinueSkipPaddingBits(m) ==
    Ret(PostSkipBitsState(
            _continueSkipPaddingBits(
                m, m.pos.theState = "CONTINUE_SKIP_CONTENT_PADDING_BITS")),
        FALSE)

\* if (this->_remBitsInBuf() == 0) this->_tryHaveBits(1): m.ret tells whether
\* the window holds a bit
ProbeBit(m) ==
    IF ~Ok(m) THEN m
    ELSE IF _remBitsInBuf(m) = 0 THEN _tryHaveBits(m, 1)
    ELSE Ret(m, TRUE)

\* variant: the state is set before the end of the element sequence is looked at
BeginPktStateFirst(m) ==
    IF ~m.ret THEN Ret(_setItEnd(state(m, "BEGIN_PKT_CONTENT")), TRUE)
    ELSE Ret(state(loadNewProc(
                       _updateItCurOffset(m, "pktBeginning", <<"begin", "Pkt">>),
                       PktProcs[m.pos.pktProc].preambleProc),
                   "BEGIN_PKT_CONTENT"),
             TRUE)

\* _stateBeginPkt() once the end of the element sequence is probed
BeginPkt(m) ==
    IF ~m.ret THEN Ret(_setItEnd(m), TRUE)
    ELSE Ret(state(loadNewProc(
                       _updateItCurOffset(m, "pktBeginning", <<"begin", "Pkt">>),
                       PktProcs[m.pos.pktProc].preambleProc),
                   "BEGIN_PKT_CONTENT"),
             TRUE)

_stateBeginPkt(m) == BeginPkt(ProbeBit(resetForNewPkt(_resetItMark(m))))

_stateBeginPktContent(m) ==
    Ret(state(_updateItCurOffset(m, "pktContentBeginning", <<"begin", "PktContent">>),
              "EXEC_INSTR"),
        TRUE)

\* variant: no padding is skipped after the content
_stateEndPktContentNoPadding(m) ==
    Ret(_updateItCurOffset(state(m, "END_PKT"), "end", <<"end", "PktContent">>), TRUE)

_stateEndPktContent(m) ==
    LET bitsToSkip == IF m.pos.curExpectedPktTotalLenBits # SIZE_UNSET
                      THEN USub(m.pos.curExpectedPktTotalLenBits,
                                m.pos.headOffsetInCurPktBits)
                      ELSE 0
    IN  Ret(_updateItCurOffset(
                IF bitsToSkip > 0
                THEN [m EXCEPT !.pos.remBitsToSkip = bitsToSkip,
                               !.pos.postSkipBitsState = "END_PKT",
                               !.pos.theState = "CONTINUE_SKIP_PADDING_BITS"]
                ELSE state(m, "END_PKT"),
                "end", <<"end", "PktContent">>),
            TRUE)

\* _stateEndPkt(): the window moved to the beginning of the next packet
NextPktWindow(m) ==
    LET newBufAddr == m.buf.addr - (m.buf.off \div 8)
                      + (m.pos.curExpectedPktTotalLenBits \div 8)
    IN  IF ~Ok(m) THEN m
        ELSE IF m.pos.curExpectedPktTotalLenBits = SIZE_UNSET THEN _resetBuffer(m)
        ELSE [m EXCEPT !.buf = [addr |-> newBufAddr,
                                off |-> 0,
                                len |-> USub(m.buf.len, (newBufAddr - m.buf.addr) * 8)]]

_stateEndPkt(m) ==
    Ret(state(_updateIt(
                  NextPktWindow(
                      Ensure([m EXCEPT !.pos.curPktOffsetInElemSeqBits =
                                           headOffsetInElemSeqBits(m.pos),
                                       !.pos.headOffsetInCurPktBits = 0],
                             headOffsetInElemSeqBits(m.pos) % 8 = 0)),
                  "end", headOffsetInElemSeqBits(m.pos), <<"end", "Pkt">>),
              "BEGIN_PKT"),
        TRUE)

\* variant: the data source is asked whatever the expected content length
ProbeContentInData(m) == ProbeBit(m)

\* _stateBeginEr(): m.ret tells whether the packet has more content
ProbeContent(m) ==
    IF ~Ok(m) THEN m
    ELSE IF m.pos.curExpectedPktContentLenBits = SIZE_UNSET THEN ProbeBit(m)
    ELSE Ret(m, remContentBitsInPkt(m.pos) # 0)

\* variant: the procedure is loaded before the head is aligned
BeginErLoadFirst(m) ==
    IF ~Ok(m) THEN Ret(m, TRUE)
    ELSE IF ~m.ret THEN Ret(state(m, "END_PKT_CONTENT"), FALSE)
    ELSE Ret(state(_updateItCurOffset(
                       _alignHead(loadNewProc(m, CurDsPktProc(m.pos).erPreambleProc),
                                  CurDsPktProc(m.pos).erAlign),
                       "erBeginning", <<"begin", "Er">>),
                   "EXEC_INSTR"),
             TRUE)

\* _stateBeginEr() once the end of the content is probed
BeginEr(m) ==
    IF ~Ok(m) THEN Ret(m, TRUE)
    ELSE IF ~m.ret THEN Ret(state(m, "END_PKT_CONTENT"), FALSE)
    ELSE Ret(state(loadNewProc(
                       _updateItCurOffset(_alignHead(m, CurDsPktProc(m.pos).erAlign),
                                          "erBeginning", <<"begin", "Er">>),
                       CurDsPktProc(m.pos).erPreambleProc),
                   "EXEC_INSTR"),
             TRUE)

_stateBeginEr(m) == BeginEr(ProbeContent(Ensure(m, m.pos.curDsPktProc # -1)))

\* variant: the event record type stays set
_stateEndErKeepErProc(m) ==
    IF m.pos.curErProc = -1 THEN Ret(Throw(LogProc(m, "endEr"), AssertionFailed), TRUE)
    ELSE Ret(state(_updateItCurOffset(LogProc(m, "endEr"), "end", <<"end", "Er">>),
                   "BEGIN_ER"),
             TRUE)

_stateEndEr(m) ==
    IF m.pos.curErProc = -1 THEN Ret(Throw(LogProc(m, "endEr"), AssertionFailed), TRUE)
    ELSE Ret(state(_updateItCurOffset([LogProc(m, "endEr") EXCEPT !.pos.curErProc = -1],
                                      "end",
                                      <<"end", "Er">>),
                   "BEGIN_ER"),
             TRUE)

\* variant: the bytes are stored from the last one to the first one
StoreUuidByteBackwards(m) ==
    IF ~Ok(m) THEN Ret(m, TRUE)
    ELSE IF stackTop(m.pos).remElems - 1 \notin 0 .. 15 THEN Ret(Throw(m, Undefined), TRUE)
    ELSE Ret([m EXCEPT !.pos.uuid[stackTop(m.pos).remElems - 1] = m.pos.lastIntVal % 256,
                       !.pos.stack[Len(m.pos.stack)].remElems = @ - 1],
             TRUE)

\* _pos.uuid.data[16 - remElems] = lastIntVal; --remElems: a write outside the
\* 16 bytes is undefined behaviour
StoreUuidByte(m) ==
    IF ~Ok(m) THEN Ret(m, TRUE)
    ELSE IF 16 - stackTop(m.pos).remElems \notin 0 .. 15 THEN Ret(Throw(m, Undefined), TRUE)
    ELSE Ret([m EXCEPT !.pos.uuid[16 - stackTop(m.pos).remElems] = m.pos.lastIntVal % 256,
                       !.pos.stack[Len(m.pos.stack)].remElems = @ - 1],
             TRUE)

_stateReadUuidByte(m) ==
    IF m.pos.stack = <<>> THEN Ret(Throw(m, Undefined), TRUE)
    ELSE IF stackTop(m.pos).remElems = 0
    THEN Ret(state(m, "SET_TRACE_TYPE_UUID"), FALSE)
    ELSE IF AtProcEnd(m.pos) THEN Ret(Throw(m, Undefined), TRUE)
    ELSE StoreUuidByte(
             _execReadStdInt(m, [nextInstr(m.pos) EXCEPT !.len = 8, !.sgn = FALSE]))

_stateSetPktUuid(m) ==
    Ret(setParentStateAndStackPop(
            _updateItCurOffset(
                SetElem(Ensure(m, PktProcs[m.pos.pktProc].uuid), "traceTypeUuid",
                        [i \in 1 .. 16 |-> m.pos.uuid[i - 1]]),
                "traceTypeUuid", <<"data", "traceTypeUuid">>)),
        TRUE)

\* the bytes [_bufAtHead(), _bufAtHead() + n)
BufBytes(m, n) ==
    LET a == m.buf.addr + ((m.pos.headOffsetInCurPktBits - m.buf.off) \div 8)
    IN  [i \in 1 .. n |-> ByteAt(m, a + i - 1)]

\* _stateReadSubstr(): the substring of size bytes at the head
EmitSubstr(m, size) ==
    _consumeExistingBits(
        _updateItCurOffset(SetElem(m, "substr", BufBytes(m, size)), "substr",
                           <<"data", "substr">>),
        size * 8)

\* _pos.stackTop().remElems -= substrSizeBytes
SubRemElems(m, size) ==
    IF Ok(m) THEN [m EXCEPT !.pos.stack[Len(m.pos.stack)].remElems = @ - size] ELSE m

\* variant: the substring ends where the window does
ReadSubstrWholeWindow(m) ==
    LET substrSizeBytes == _remBitsInBuf(m) \div 8
    IN  IF ~Ok(m) THEN Ret(m, TRUE)
        ELSE IF substrSizeBytes * 8 > remContentBitsInPkt(m.pos)
        THEN Ret(Throw(m, "CannotDecodeDataBeyondPacketContent"), TRUE)
        ELSE IF substrSizeBytes = 0 THEN Ret(Throw(m, AssertionFailed), TRUE)
        ELSE Ret(SubRemElems(EmitSubstr(m, substrSizeBytes), substrSizeBytes), TRUE)

\* _stateReadSubstr() once a byte is required
ReadSubstr(m) ==
    LET substrSizeBytes == Min(_remBitsInBuf(m) \div 8, stackTop(m.pos).remElems)
    IN  IF ~Ok(m) THEN Ret(m, TRUE)
        ELSE IF substrSizeBytes * 8 > remContentBitsInPkt(m.pos)
        THEN Ret(Throw(m, "CannotDecodeDataBeyondPacketContent"), TRUE)
        ELSE IF substrSizeBytes = 0 THEN Ret(Throw(m, AssertionFailed), TRUE)
        ELSE Ret(SubRemElems(EmitSubstr(m, substrSizeBytes), substrSizeBytes), TRUE)

_stateReadSubstr(m) ==
    IF m.pos.headOffsetInCurPktBits % 8 # 0 THEN Ret(Throw(m, AssertionFailed), TRUE)
    ELSE IF m.pos.stack = <<>> THEN Ret(Throw(m, Undefined), TRUE)
    ELSE IF stackTop(m.pos).remElems = 0 THEN Ret(setParentStateAndStackPop(m), FALSE)
    ELSE ReadSubstr(_requireContentBits(m, 8))

\* std::memchr(buf, 0, bufSizeBytes): the index of the first null byte, 0 if none
MemChr0(bytes) ==
    LET z == {i \in 1 .. Len(bytes) : bytes[i] = 0}
    IN  IF z = {} THEN 0 ELSE CHOOSE i \in z : \A j \in z : i <= j

\* variant: the substring ends where the window does
SubstrSizeUntilNullWholeWindow(m) == _remBitsInBuf(m) \div 8

\* end - begin of _stateReadSubstrUntilNull()
SubstrSizeUntilNull(m) ==
    IF MemChr0(BufBytes(m, _remBitsInBuf(m) \div 8)) # 0
    THEN MemChr0(BufBytes(m, _remBitsInBuf(m) \div 8))
    ELSE _remBitsInBuf(m) \div 8

\* _stateReadSubstrUntilNull() once a byte is required
ReadSubstrUntilNull(m) ==
    IF ~Ok(m) THEN Ret(m, TRUE)
    ELSE IF _remBitsInBuf(m) \div 8 < 1 THEN Ret(Throw(m, AssertionFailed), TRUE)
    ELSE IF SubstrSizeUntilNull(m) * 8 > remContentBitsInPkt(m.pos)
    THEN Ret(Throw(m, "CannotDecodeDataBeyondPacketContent"), TRUE)
    ELSE Ret(EmitSubstr(IF MemChr0(BufBytes(m, _remBitsInBuf(m) \div 8)) # 0
                        THEN state(m, "END_STR") ELSE m,
                        SubstrSizeUntilNull(m)),
             TRUE)

_stateReadSubstrUntilNull(m) ==
    IF m.pos.headOffsetInCurPktBits % 8 # 0 THEN Ret(Throw(m, AssertionFailed), TRUE)
    ELSE ReadSubstrUntilNull(_requireContentBits(m, 8))

\* _pos.state(_pos.postEndStrState)
PostEndStrState(m) == state(m, m.pos.postEndStrState)

_stateEndStr(m) ==
    Ret(EnsureState(PostEndStrState(_updateItCurOffset(m, "end", <<"end", "Str">>)),
                    {"EXEC_INSTR", "EXEC_ARRAY_INSTR"}),
        TRUE)

(***************************************************************************)
(* Saving and restoring a position                                         *)
(***************************************************************************)
_setSimpleFromOther(p, other) ==
    [p EXCEPT !.curPktOffsetInElemSeqBits = other.curPktOffsetInElemSeqBits,
              !.headOffsetInCurPktBits = other.headOffsetInCurPktBits,
              !.elems = other.elems,
              !.theState = other.theState,
              !.lastBo = other.lastBo,
              !.remBitsToSkip = other.remBitsToSkip,
              !.postSkipBitsState = other.postSkipBitsState,
              !.postEndStrState = other.postEndStrState,
              !.lastIntVal = other.lastIntVal,
              !.curId = other.curId,
              !.pktProc = other.pktProc,
              !.curDsPktProc = other.curDsPktProc,
              !.curErProc = other.curErProc,
              !.uuid = other.uuid,
              !.curExpectedPktTotalLenBits = other.curExpectedPktTotalLenBits,
              !.curExpectedPktContentLenBits = other.curExpectedPktContentLenBits]

\* variant: the stack, the saved values and the clock value are not copied
_setFromOtherShallow(p, other) == _setSimpleFromOther(p, other)

_setFromOther(p, other) ==
    [_setSimpleFromOther(p, other) EXCEPT !.stack = other.stack,
                                          !.savedVals = other.savedVals,
                                          !.defClkVal = other.defClkVal]

\* Vm::savePos(): the saved position {_vmPos, _itInfos}
savePos(m) ==
    [vmPos |-> _setFromOther(VmPos(m.pos.pktProc), m.pos),
     itInfos |-> [offset |-> m.it.offset, mark |-> m.it.mark, elem |-> m.it.elem]]

restorePos(m, sp) ==
    _resetBuffer([m EXCEPT !.pos = _setFromOther(m.pos, sp.vmPos),
                           !.it = [offset |-> sp.itInfos.offset,
                                   mark |-> sp.itInfos.mark,
                                   elem |-> sp.itInfos.elem]])

(***************************************************************************)
(* The element sequences decoded: a trace type and the bytes of the        *)
(* source                                                                  *)
(***************************************************************************)
Sc(tt, data) == [tt |-> tt, data |-> data]

Scenarios ==
    << \* two packets, four bytes of padding after the first one's content
       Sc(1, <<0, 88, 56, 0, 2, 7, 9, 0, 0, 0, 0, 0, 48, 48, 1, 104, 0>>),
       \* variant with an unsigned selector, dynamic text array
       Sc(1, <<0, 96, 96, 2, 7, 1, 2, 3, 3, 97, 98, 99>>),
       \* a string longer than a block
       Sc(1, <<0, 72, 72, 1, 104, 105, 106, 107, 0>>),
       \* unknown data stream type, total < content, total not a multiple of 8,
       \* total < head
       Sc(1, <<5>>),
       Sc(1, <<0, 32, 40>>),
       Sc(1, <<0, 12, 8>>),
       Sc(1, <<0, 8, 8>>),
       \* data ends before the packet does
       Sc(1, <<0, 64, 64, 0, 3, 1>>),
       Sc(1, <<0, 56, 56, 2, 7, 1>>),
       \* the content ends before the event record does
       Sc(1, <<0, 48, 40, 0, 1, 9>>),
       Sc(1, <<0, 40, 40, 1, 104>>),
       \* invalid selector, unknown event record type
       Sc(1, <<0, 48, 48, 2, 11, 0>>),
       Sc(1, <<0, 40, 40, 9, 0>>),
       \* clock updates: 8-bit wrap, then a full-word snapshot
       Sc(2, <<0, 250, 0, 5, 1, 3, 0>>),
       \* clock updates: a full-word snapshot, then an 8-bit wrap
       Sc(2, <<1, 240, 255, 0, 5>>),
       \* bit fields, static array of structures, static text array, variant
       \* with a signed selector
       Sc(2, <<5, 165, 60, 3, 255, 1, 4, 97, 98, 99, 6, 255, 6, 2, 9>>),
       \* byte order change within a byte
       Sc(2, <<2, 165>>),
       \* magic number and UUID, no data stream type
       Sc(3, <<193, 1, 2, 3, 4, 5, 6, 7, 8, 9, 10, 11, 12, 13, 14, 15, 16>>),
       \* two packets whose content length (36) is no multiple of the event
       \* record alignment (16)
       Sc(4, <<36, 48, 9, 0, 3, 0, 36, 48, 2, 0, 1, 0>>),
       \* an expected content length and no expected total length: the content
       \* ends on a byte boundary, then within a byte
       Sc(5, <<1, 24, 33>>),
       Sc(5, <<1, 20, 9>>),
       \* dynamic arrays whose length is a full word: one element, then the
       \* largest length
       Sc(2, <<7, 1, 0, 9, 7, 255, 255>>),
       \* the data ends within the padding after the content, then within the
       \* padding before an event record
       Sc(1, <<0, 64, 40, 1, 0, 0>>),
       Sc(4, <<44, 48, 9>>),
       \* the content ends within the padding before an event record
       Sc(4, <<24, 32, 9, 0>>),
       \* content < head, invalid signed selector
       Sc(1, <<0, 64, 8>>),
       Sc(2, <<6, 9>>),
       \* a string after a 4-bit field
       Sc(2, <<8, 5, 104, 105, 0>>),
       \* clock updates of half a word: 0xF0, then 0x10
       Sc(2, <<0, 240, 0, 16>>),
       \* a selector that two options of the variant contain
       Sc(1, <<0, 56, 56, 2, 5, 9>>),
       \* expected total lengths that fail two of the checks: not a multiple
       \* of 8 and < content, < content and < head
       Sc(4, <<24, 12>>),
       Sc(4, <<48, 8>>),
       \* a string, then an event record
       Sc(2, <<8, 5, 104, 0, 0, 7>>),
       \* a string whose terminator is beyond the content, a string that
       \* the end of the data cuts
       Sc(1, <<0, 64, 40, 1, 104, 105, 0, 0>>),
       Sc(2, <<8, 5, 104>>),
       \* a text array that ends beyond the content, one that the end of the
       \* data cuts, and an empty one
       Sc(1, <<0, 64, 56, 3, 3, 97, 98, 99>>),
       Sc(1, <<0, 96, 96, 3, 3, 97>>),
       Sc(1, <<0, 40, 40, 3, 0>>),
       Sc(2, <<9, 2, 1, 2, 3, 4, 5, 6, 0, 7>>),
       Sc(2, <<9, 0, 9, 1, 1, 2>>),
       Sc(1, <<0, 40, 40, 0, 0>>) >>

(***************************************************************************)
(* State                                                                   *)
(***************************************************************************)
VARIABLES pos, buf, it, err, src, gh, running, sv

vars == <<pos, buf, it, err, src, gh, running, sv>>

\* the advances made at the end of the element sequence are counted up to this
MaxEos == 2

M ==
    [pos |-> pos, buf |-> buf, it |-> it, err |-> err, src |-> src, gh |-> gh,
     ret |-> FALSE, reaction |-> "STOP"]

GhInit ==
    [emits |-> 0, log |-> <<>>, align |-> <<>>, skips |-> <<>>, procs |-> <<>>,
     site |-> <<"none", "none">>,
     prevSite |-> <<"none", "none">>, prev |-> <<>>, cur |-> <<>>,
     open |-> <<>>, nestOk |-> TRUE, pktBegin |-> 0, contentBegin |-> 0,
     clk |-> [prev |-> <<>>, cur |-> <<>>, len |-> 0, ovf |-> FALSE, old |-> 0, v |-> 0], errSeen |-> FALSE,
     mark0 |-> 0, atEnd0 |-> FALSE, eosAdv |-> 0, advances |-> 0, st0 |-> "none",
     errInfo |-> <<>>, req |-> << <<>>, <<>> >>, decErr |-> FALSE, execs |-> <<>>,
     arrDone |-> <<>>, over |-> <<>>, guard |-> <<>>]

SvInit == [st |-> "idle", sp |-> <<>>, ref |-> <<>>, replay |-> <<>>]

\* Vm::Vm(): the position of a new VM, an empty window, an iterator with no
\* current element
Init ==
    \E s \in 1 .. Len(Scenarios), blk \in 1 .. MaxBlk, short \in BOOLEAN :
        /\ pos = VmPos(Scenarios[s].tt)
        /\ buf = [addr |-> -1, len |-> 0, off |-> 0]
        /\ it = [elem |-> "null", offset |-> 0, mark |-> 0]
        /\ err = NoErr
        /\ src = [data |-> Scenarios[s].data, blk |-> blk, short |-> short]
        /\ gh = GhInit
        /\ running = FALSE
        /\ sv = SvInit

\* undefined behaviour, a failed assertion or std::abort() ends the run
Halted == err \in {Undefined, AssertionFailed, "Aborted"}

AtEnd == it.offset = END_OFFSET /\ it.mark = 0 /\ it.elem # "null"

\* nextElem() entered (a new advance) or its loop going on
Entered ==
    IF running THEN [M EXCEPT !.gh.log = <<>>, !.gh.align = <<>>, !.gh.skips = <<>>,
                              !.gh.procs = <<>>,
                              !.gh.st0 = pos.theState]
    ELSE [M EXCEPT !.err = NoErr,
                   !.gh.log = <<>>,
                   !.gh.align = <<>>,
                   !.gh.skips = <<>>,
                   !.gh.procs = <<>>,
                   !.gh.st0 = pos.theState,
                   !.gh.decErr = @ \/ err # NoErr,
                   !.gh.emits = 0,
                   !.gh.mark0 = it.mark,
                   !.gh.atEnd0 = AtEnd,
                   !.gh.advances = 1,
                   !.gh.eosAdv = IF AtEnd THEN @ + 1 ELSE @]

CanStep ==
    /\ ~Halted
    /\ running \/ ~AtEnd \/ gh.eosAdv < MaxEos
    /\ sv.st = "saved" => running \/ Len(sv.ref) < MaxK
    /\ sv.st = "restored" => running \/ Len(sv.replay) < Len(sv.ref)

\* what the user of the iterator sees once the advance is over
Seen(m) ==
    IF m.err # NoErr
    THEN [kind |-> m.err, val |-> <<>>, offset |-> m.it.offset, mark |-> m.it.mark]
    ELSE IF m.it.offset = END_OFFSET /\ m.it.mark = 0
    THEN [kind |-> "END", val |-> <<>>, offset |-> m.it.offset, mark |-> m.it.mark]
    ELSE [kind |-> m.it.elem, val |-> m.pos.elems[m.it.elem],
          offset |-> m.it.offset, mark |-> m.it.mark]

\* one call of _handleState() by nextElem(): r is the machine the handler left
Step(r) ==
    LET over == r.ret \/ r.err # NoErr
    IN  /\ pos' = r.pos
        /\ buf' = r.buf
        /\ it' = r.it
        /\ err' = r.err
        /\ src' = r.src
        /\ gh' = r.gh
        /\ running' = ~over
        /\ sv' = IF over /\ sv.st = "saved"
                 THEN [sv EXCEPT !.ref = Append(@, Seen(r))]
                 ELSE IF over /\ sv.st = "restored"
                 THEN [sv EXCEPT !.replay = Append(@, Seen(r))]
                 ELSE sv

StateExecInstr ==
    /\ CanStep /\ pos.theState = "EXEC_INSTR"
    /\ Step(_stateExecInstr(Entered))

StateExecArrayInstr ==
    /\ CanStep /\ pos.theState = "EXEC_ARRAY_INSTR"
    /\ Step(_stateExecArrayInstr(Entered))

StateBeginEr ==
    /\ CanStep /\ pos.theState = "BEGIN_ER"
    /\ Step(_stateBeginEr(Entered))

StateEndEr ==
    /\ CanStep /\ pos.theState = "END_ER"
    /\ Step(_stateEndEr(Entered))

StateReadSubstr ==
    /\ CanStep /\ pos.theState = "READ_SUBSTR"
    /\ Step(_stateReadSubstr(Entered))

StateReadSubstrUntilNull ==
    /\ CanStep /\ pos.theState = "READ_SUBSTR_UNTIL_NULL"
    /\ Step(_stateReadSubstrUntilNull(Entered))

StateEndStr ==
    /\ CanStep /\ pos.theState = "END_STR"
    /\ Step(_stateEndStr(Entered))

StateContinueSkipPaddingBits ==
    /\ CanStep
    /\ pos.theState \in {"CONTINUE_SKIP_PADDING_BITS", "CONTINUE_SKIP_CONTENT_PADDING_BITS"}
    /\ Step(_stateContinueSkipPaddingBits(Entered))

StateReadUuidByte ==
    /\ CanStep /\ pos.theState = "READ_UUID_BYTE"
    /\ Step(_stateReadUuidByte(Entered))

StateSetPktUuid ==
    /\ CanStep /\ pos.theState = "SET_TRACE_TYPE_UUID"
    /\ Step(_stateSetPktUuid(Entered))

StateBeginPkt ==
    /\ CanStep /\ pos.theState = "BEGIN_PKT"
    /\ Step(_stateBeginPkt(Entered))

StateBeginPktContent ==
    /\ CanStep /\ pos.theState = "BEGIN_PKT_CONTENT"
    /\ Step(_stateBeginPktContent(Entered))

StateEndPktContent ==
    /\ CanStep /\ pos.theState = "END_PKT_CONTENT"
    /\ Step(_stateEndPktContent(Entered))

StateEndPkt ==
    /\ CanStep /\ pos.theState = "END_PKT"
    /\ Step(_stateEndPkt(Entered))

\* ElementSequenceIterator::savePosition(), between two advances
SavePos ==
    /\ ~Halted /\ ~running /\ err = NoErr /\ sv.st = "idle"
    /\ it.elem # "null" /\ ~AtEnd
    /\ sv' = [st |-> "saved", sp |-> savePos(M), ref |-> <<>>, replay |-> <<>>]
    /\ UNCHANGED <<pos, buf, it, err, src, gh, running>>

\* ElementSequenceIterator::restorePosition(), between two advances
RestorePos ==
    /\ ~Halted /\ ~running /\ sv.st = "saved"
    /\ pos' = restorePos(M, sv.sp).pos
    /\ buf' = restorePos(M, sv.sp).buf
    /\ it' = restorePos(M, sv.sp).it
    /\ err' = NoErr
    /\ gh' = [gh EXCEPT !.eosAdv = 0, !.log = <<>>]
    /\ sv' = [sv EXCEPT !.st = "restored"]
    /\ UNCHANGED <<src, running>>

Next ==
    \/ StateExecInstr
    \/ StateExecArrayInstr
    \/ StateBeginEr
    \/ StateEndEr
    \/ StateReadSubstr
    \/ StateReadSubstrUntilNull
    \/ StateEndStr
    \/ StateContinueSkipPaddingBits
    \/ StateReadUuidByte
    \/ StateSetPktUuid
    \/ StateBeginPkt
    \/ StateBeginPktContent
    \/ StateEndPktContent
    \/ StateEndPkt

Spec == Init /\ [][Next]_vars

NextSave ==
    \/ StateExecInstr
    \/ StateExecArrayInstr
    \/ StateBeginEr
    \/ StateEndEr
    \/ StateReadSubstr
    \/ StateReadSubstrUntilNull
    \/ StateEndStr
    \/ StateContinueSkipPaddingBits
    \/ StateReadUuidByte
    \/ StateSetPktUuid
    \/ StateBeginPkt
    \/ StateBeginPktContent
    \/ StateEndPktContent
    \/ StateEndPkt
    \/ SavePos
    \/ RestorePos

SpecSave == Init /\ [][NextSave]_vars

\* the byte offsets that seekPkt() is called with
SeekOffsets == {0, 6, 11}

\* variant: the window is kept
seekPktKeepWindow(m, offsetBytes) ==
    _stateBeginPkt(
        resetForNewPkt(
            [m EXCEPT !.pos.curPktOffsetInElemSeqBits = (offsetBytes * 8) % WordMod]))

\* Vm::seekPkt(): after resetForNewPkt() the state is BEGIN_PKT, whose handler
\* returns true, so nextElem() calls it once
seekPkt(m, offsetBytes) ==
    _stateBeginPkt(
        _resetBuffer(
            resetForNewPkt(
                [m EXCEPT !.pos.curPktOffsetInElemSeqBits =
                              (offsetBytes * 8) % WordMod])))

\* ElementSequenceIterator::seekPacket(), between two advances; the elements
\* seen from then on are recorded
SeekPkt ==
    /\ ~Halted /\ ~running /\ sv.st = "idle"
    /\ \E b \in SeekOffsets :
          /\ pos' = seekPkt(Entered, b).pos
          /\ buf' = seekPkt(Entered, b).buf
          /\ it' = seekPkt(Entered, b).it
          /\ err' = seekPkt(Entered, b).err
          /\ gh' = seekPkt(Entered, b).gh
          /\ sv' = [st |-> "saved", sp |-> <<b, it.elem # "null">>,
                    ref |-> <<Seen(seekPkt(Entered, b))>>, replay |-> <<>>]
    /\ UNCHANGED <<src, running>>

\* a new VM on the element sequence that begins at the byte sought; the
\* elements seen from then on are recorded
FreshVm ==
    /\ ~running /\ sv.st = "saved" /\ Len(sv.sp) = 2
    /\ pos' = VmPos(pos.pktProc)
    /\ buf' = [addr |-> -1, len |-> 0, off |-> 0]
    /\ it' = [elem |-> "null", offset |-> 0, mark |-> 0]
    /\ err' = NoErr
    /\ src' = [src EXCEPT !.data = SubSeq(@, sv.sp[1] + 1, Len(@))]
    /\ gh' = GhInit
    /\ sv' = [sv EXCEPT !.st = "restored"]
    /\ UNCHANGED running

NextSeek ==
    \/ StateExecInstr
    \/ StateExecArrayInstr
    \/ StateBeginEr
    \/ StateEndEr
    \/ StateReadSubstr
    \/ StateReadSubstrUntilNull
    \/ StateEndStr
    \/ StateContinueSkipPaddingBits
    \/ StateReadUuidByte
    \/ StateSetPktUuid
    \/ StateBeginPkt
    \/ StateBeginPktContent
    \/ StateEndPktContent
    \/ StateEndPkt
    \/ SeekPkt
    \/ FreshVm

SpecSeek == Init /\ [][NextSeek]_vars

\* Vm::_handleState(): the handler of the state of m
_handleState(m) ==
    CASE m.pos.theState = "EXEC_INSTR" -> _stateExecInstr(m)
      [] m.pos.theState = "EXEC_ARRAY_INSTR" -> _stateExecArrayInstr(m)
      [] m.pos.theState = "BEGIN_ER" -> _stateBeginEr(m)
      [] m.pos.theState = "END_ER" -> _stateEndEr(m)
      [] m.pos.theState = "READ_SUBSTR" -> _stateReadSubstr(m)
      [] m.pos.theState = "READ_SUBSTR_UNTIL_NULL" -> _stateReadSubstrUntilNull(m)
      [] m.pos.theState = "END_STR" -> _stateEndStr(m)
      [] m.pos.theState \in {"CONTINUE_SKIP_PADDING_BITS",
                             "CONTINUE_SKIP_CONTENT_PADDING_BITS"} ->
            _stateContinueSkipPaddingBits(m)
      [] m.pos.theState = "READ_UUID_BYTE" -> _stateReadUuidByte(m)
      [] m.pos.theState = "SET_TRACE_TYPE_UUID" -> _stateSetPktUuid(m)
      [] m.pos.theState = "BEGIN_PKT" -> _stateBeginPkt(m)
      [] m.pos.theState = "BEGIN_PKT_CONTENT" -> _stateBeginPktContent(m)
      [] m.pos.theState = "END_PKT_CONTENT" -> _stateEndPktContent(m)
      [] m.pos.theState = "END_PKT" -> _stateEndPkt(m)
      [] OTHER -> Ret(Throw(m, "Aborted"), TRUE)

\* while (!this->_handleState());
RECURSIVE HandleStates(_)
HandleStates(r) ==
    IF r.ret \/ ~Ok(r) THEN r
    ELSE HandleStates(_handleState([r EXCEPT !.gh.log = <<>>, !.gh.align = <<>>,
                                            !.gh.skips = <<>>, !.gh.procs = <<>>]))

\* Vm::nextElem(): a whole advance of m
nextElem(m) ==
    HandleStates(_handleState([m EXCEPT !.gh.log = <<>>, !.gh.align = <<>>,
                                        !.gh.skips = <<>>, !.gh.procs = <<>>,
                                        !.gh.emits = 0]))

\* what the user of the iterator sees of m once the advance is over, an
\* error with the offset it is raised at
SeenAt(m) ==
    IF m.err # NoErr
    THEN [kind |-> m.err, val |-> <<>>, offset |-> headOffsetInElemSeqBits(m.pos),
          mark |-> 0]
    ELSE Seen(m)

\* the run has ended: its last advance raised an error or reached the end
RunOver(seen) ==
    seen # <<>> /\ (seen[Len(seen)].kind = "END" \/ seen[Len(seen)].kind \notin ElemNames)

\* two VMs on the same trace type and the same bytes, the data sources
\* returning blocks of different sizes, never less than what is asked for
InitChunks ==
    \E s \in 1 .. Len(Scenarios), blk \in 1 .. MaxBlk - 1, blk2 \in 2 .. MaxBlk :
        /\ blk < blk2
        /\ pos = VmPos(Scenarios[s].tt)
        /\ buf = [addr |-> -1, len |-> 0, off |-> 0]
        /\ it = [elem |-> "null", offset |-> 0, mark |-> 0]
        /\ err = NoErr
        /\ src = [data |-> Scenarios[s].data, blk |-> blk, short |-> FALSE]
        /\ gh = GhInit
        /\ running = FALSE
        /\ sv = [st |-> "pair",
                 sp |-> <<[pos |-> VmPos(Scenarios[s].tt),
                           buf |-> [addr |-> -1, len |-> 0, off |-> 0],
                           it |-> [elem |-> "null", offset |-> 0, mark |-> 0],
                           err |-> NoErr,
                           src |-> [data |-> Scenarios[s].data, blk |-> blk2,
                                    short |-> FALSE],
                           gh |-> GhInit, ret |-> FALSE, reaction |-> "STOP"]>>,
                 ref |-> <<>>, replay |-> <<>>]

\* the first VM advances, unless it is ahead of the second one
AdvanceFirst ==
    /\ sv.st = "pair" /\ ~RunOver(sv.ref)
    /\ Len(sv.ref) <= Len(sv.replay) \/ RunOver(sv.replay)
    /\ pos' = nextElem(M).pos
    /\ buf' = nextElem(M).buf
    /\ it' = nextElem(M).it
    /\ err' = nextElem(M).err
    /\ gh' = nextElem(M).gh
    /\ sv' = [sv EXCEPT !.ref = Append(@, SeenAt(nextElem(M)))]
    /\ UNCHANGED <<src, running>>

\* the second VM advances, unless it is ahead of the first one
AdvanceSecond ==
    /\ sv.st = "pair" /\ ~RunOver(sv.replay)
    /\ Len(sv.replay) < Len(sv.ref) \/ RunOver(sv.ref)
    /\ sv' = [sv EXCEPT !.sp = <<nextElem(sv.sp[1])>>,
                        !.replay = Append(@, SeenAt(nextElem(sv.sp[1])))]
    /\ UNCHANGED <<pos, buf, it, err, src, gh, running>>

NextChunks ==
    \/ AdvanceFirst
    \/ AdvanceSecond

SpecChunks == InitChunks /\ [][NextChunks]_vars

(***************************************************************************)
(* Properties                                                              *)
(***************************************************************************)
\* an advance is over and has emitted the current element
Emitted == ~running /\ gh.emits >= 1

\* C1: every element emitted after another one is not before it, and is
\* after it by its offset or by its mark (packet boundaries included)
C1_Ordered ==
    (Emitted /\ ~gh.errSeen /\ gh.prev # <<>>) =>
        /\ gh.prev[1] <= it.offset
        /\ gh.prev[1] < it.offset \/ gh.prev[2] < it.mark

\* C2: the End of a packet decoded without error whose expected total length
\* is set is that many bits after its PacketBeginning
C2_PktTotalLen ==
    (Emitted /\ ~gh.errSeen /\ gh.site = <<"end", "Pkt">>
        /\ pos.curExpectedPktTotalLenBits # SIZE_UNSET) =>
        USub(it.offset, gh.pktBegin) = pos.curExpectedPktTotalLenBits

\* a packet with padding after its content ended, the source returning
\* blocks of one byte
C2_Witness ==
    /\ Emitted /\ ~gh.errSeen /\ gh.site = <<"end", "Pkt">>
    /\ pos.curExpectedPktTotalLenBits # SIZE_UNSET
    /\ pos.curExpectedPktContentLenBits + 24 < pos.curExpectedPktTotalLenBits
    /\ src.blk = 1
    /\ USub(it.offset, gh.pktBegin) = pos.curExpectedPktTotalLenBits

\* C3 as stated: the End of the content of every packet decoded without
\* error is the expected content length after its PacketContentBeginning
C3_ContentLen ==
    (Emitted /\ ~gh.errSeen /\ gh.site = <<"end", "PktContent">>) =>
        USub(it.offset, gh.contentBegin) = pos.curExpectedPktContentLenBits

\* C3: the End of the content of a packet decoded without error whose
\* expected content length is set is that many bits after its
\* PacketContentBeginning
C3_ContentLenSet ==
    (Emitted /\ ~gh.errSeen /\ gh.site = <<"end", "PktContent">>
        /\ pos.curExpectedPktContentLenBits # SIZE_UNSET) =>
        USub(it.offset, gh.contentBegin) = pos.curExpectedPktContentLenBits

\* the content of a packet ended, its length no multiple of the alignment
\* of the event records
C3_Witness ==
    /\ Emitted /\ ~gh.errSeen /\ gh.site = <<"end", "PktContent">>
    /\ pos.curExpectedPktContentLenBits # SIZE_UNSET
    /\ pos.curDsPktProc # -1
    /\ pos.curExpectedPktContentLenBits % CurDsPktProc(pos).erAlign # 0
    /\ USub(it.offset, gh.contentBegin) = pos.curExpectedPktContentLenBits

\* C4: in a run without error every End closes the innermost open beginning,
\* and no beginning is left open at the end of the element sequence
C4_Nested ==
    ~gh.errSeen => /\ gh.nestOk
                   /\ (~running /\ AtEnd) => gh.open = <<>>

\* the End of a packet closed the last open beginning
C4_Witness ==
    /\ Emitted /\ ~gh.errSeen /\ gh.nestOk
    /\ gh.site = <<"end", "Pkt">> /\ gh.open = <<>>

\* C5 as stated: the elements seen after restorePos() are those seen after
\* savePos(), marks and values included
C5_SameElements ==
    sv.st = "restored" =>
        \A i \in 1 .. Len(sv.replay) : sv.replay[i] = sv.ref[i]

IsPrefix(a, b) == Len(a) <= Len(b) /\ SubSeq(b, 1, Len(a)) = a

\* the elements without their marks, consecutive substrings made one
RECURSIVE MergeSubstr(_)
MergeSubstr(s) ==
    IF s = <<>> THEN <<>>
    ELSE LET h == [kind |-> s[1].kind, val |-> s[1].val, offset |-> s[1].offset]
             r == MergeSubstr(Tail(s))
         IN  IF h.kind = "substr" /\ r # <<>> /\ r[1].kind = "substr"
             THEN <<[h EXCEPT !.val = h.val \o r[1].val]>> \o Tail(r)
             ELSE <<h>> \o r

HasSubstr(s) == \E i \in 1 .. Len(s) : s[i].kind = "substr"

Beyond == "CannotDecodeDataBeyondPacketContent"

\* the error of data beyond the content of the packet is among s[1 .. n]
BeyondIn(s, n) == \E j \in 1 .. Min(n, Len(s)) : s[j].kind = Beyond

\* the merged sequences agree as far as both go and up to the first error of
\* data beyond the content, the last substring of the shorter one, or the
\* one that precedes this error, being possibly incomplete, and this error
\* taking possibly the place of a substring
SameUpToChunks(a, b) ==
    \A i \in 1 .. Min(Len(a), Len(b)) :
        (~BeyondIn(a, i - 1) /\ ~BeyondIn(b, i - 1)) =>
            IF a[i].kind = "substr" /\ b[i].kind = "substr"
            THEN /\ a[i].offset = b[i].offset
                 /\ IF \/ i = Min(Len(a), Len(b))
                       \/ BeyondIn(a, i + 1) \/ BeyondIn(b, i + 1)
                    THEN IsPrefix(a[i].val, b[i].val) \/ IsPrefix(b[i].val, a[i].val)
                    ELSE a[i].val = b[i].val
            ELSE IF a[i].kind = Beyond \/ b[i].kind = Beyond
            THEN {a[i].kind, b[i].kind} \in {{Beyond}, {Beyond, "substr"}}
            ELSE a[i] = b[i]

\* C5: the elements seen after restorePos() have the kinds, offsets and
\* values of those seen after savePos() once the consecutive substrings are
\* concatenated, up to the error of a string or text array that ends beyond
\* the content of the packet, which one of the two may meet after fewer
\* bytes than the other, and are the same elements, marks included, when no
\* substring is among them
C5_SameUpToChunks ==
    sv.st = "restored" =>
        /\ SameUpToChunks(MergeSubstr(sv.ref), MergeSubstr(sv.replay))
        /\ (~HasSubstr(sv.ref) /\ ~HasSubstr(sv.replay)) =>
               \A i \in 1 .. Len(sv.replay) : sv.replay[i] = sv.ref[i]

\* as many advances after restorePos() as after savePos(), the substrings cut
\* differently
C5_Witness ==
    /\ sv.st = "restored" /\ Len(sv.ref) = MaxK /\ Len(sv.replay) = MaxK
    /\ HasSubstr(sv.ref) /\ sv.replay # sv.ref
    /\ MergeSubstr(sv.ref) = MergeSubstr(sv.replay)

\* C6 as stated: in a packet the clock value emitted is never less than the
\* one emitted before it
C6_Monotone ==
    (gh.clk.prev # <<>> /\ gh.clk.cur # <<>>) => gh.clk.prev[1] <= gh.clk.cur[1]

\* C6: in a packet the clock value emitted by an update shorter than a word
\* whose wrap does not overflow the word is never less than the one emitted
\* before it
C6_MonotoneBelowWord ==
    (gh.clk.prev # <<>> /\ gh.clk.cur # <<>> /\ gh.clk.len < WordBits /\ ~gh.clk.ovf) =>
        gh.clk.prev[1] <= gh.clk.cur[1]

\* an update whose low bits are less than those of the value before it
C6_Witness ==
    /\ gh.clk.prev # <<>> /\ gh.clk.cur # <<>> /\ gh.clk.len < WordBits /\ ~gh.clk.ovf
    /\ LowBits(gh.clk.cur[1], gh.clk.len) < LowBits(gh.clk.prev[1], gh.clk.len)
    /\ gh.clk.prev[1] < gh.clk.cur[1]

\* C7: an advance of an iterator at the end of the element sequence leaves
\* the iterator at the end and the position and the window as they are, the
\* position being at the beginning of a packet with an empty stack
C7_EndIsFinal ==
    [][(~running /\ AtEnd) =>
           /\ AtEnd' /\ ~running'
           /\ pos' = pos /\ buf' = buf /\ it' = it
           /\ pos.theState = "BEGIN_PKT"
           /\ pos.headOffsetInCurPktBits = 0
           /\ pos.stack = <<>>]_vars

\* the last advance began at the end of the element sequence
C7_Witness ==
    ~running /\ AtEnd /\ gh.atEnd0 /\ gh.eosAdv = MaxEos /\ err = NoErr

\* C8: an advance that returns without error has emitted exactly one element,
\* the mark one more than before (one at the beginning of a packet), or has
\* emitted none and left the iterator at the end of the element sequence
C8_OneElem ==
    (~running /\ err = NoErr /\ gh.advances = 1) =>
        \/ /\ gh.emits = 1 /\ ~AtEnd
           /\ \/ it.mark = gh.mark0 + 1
              \/ gh.site = <<"begin", "Pkt">> /\ it.mark = 1
        \/ gh.emits = 0 /\ AtEnd

\* an advance that went through three state handlers emitted the End of the
\* content of a packet
C8_Witness ==
    /\ ~running /\ err = NoErr /\ gh.advances = 1
    /\ gh.emits = 1 /\ it.mark = gh.mark0 + 1
    /\ gh.site = <<"end", "PktContent">> /\ it.elem = "end"

\* C9: when _tryHaveBits() returns true the window holds the bits asked for
C9_HaveBits ==
    \A i \in DOMAIN gh.log :
        (gh.log[i].op = "tryHaveBits" /\ gh.log[i].ret) =>
            gh.log[i].rem >= gh.log[i].bits

\* C10: _requireContentBits() throws CannotDecodeDataBeyondPacketContent
\* exactly when the bits exceed what is left of the content, before any
\* request for data; else PrematureEndOfData exactly when _tryHaveBits()
\* returns false; the head stays where it is when it throws
C10_Require ==
    \A i \in DOMAIN gh.log :
        gh.log[i].op = "requireContentBits" =>
            /\ (gh.log[i].err = "CannotDecodeDataBeyondPacketContent")
                   = (gh.log[i].bits > gh.log[i].remContent)
            /\ gh.log[i].bits > gh.log[i].remContent => gh.log[i].calls = 0
            /\ gh.log[i].bits <= gh.log[i].remContent =>
                   /\ i > 1
                   /\ gh.log[i - 1].op = "tryHaveBits"
                   /\ gh.log[i - 1].bits = gh.log[i].bits
                   /\ (gh.log[i].err = "PrematureEndOfData") = ~gh.log[i - 1].ret
            /\ gh.log[i].err # NoErr => gh.log[i].head1 = gh.log[i].head0

\* bits beyond the content were required and no data was requested
C10_Witness ==
    \E i \in DOMAIN gh.log :
        /\ gh.log[i].op = "requireContentBits"
        /\ gh.log[i].err = "CannotDecodeDataBeyondPacketContent"
        /\ gh.log[i].bits > gh.log[i].remContent
        /\ gh.log[i].calls = 0
        /\ gh.log[i].head1 = gh.log[i].head0

\* C11: the expected content length of a packet is at most its expected
\* total length; the head is at most the expected content length until the
\* content ends, and at most the expected total length while the padding
\* after the content is skipped and after it
C11_LenOrder ==
    /\ (pos.curExpectedPktContentLenBits # SIZE_UNSET
            /\ pos.curExpectedPktTotalLenBits # SIZE_UNSET) =>
           pos.curExpectedPktContentLenBits <= pos.curExpectedPktTotalLenBits
    /\ (pos.curExpectedPktContentLenBits # SIZE_UNSET
            /\ pos.theState \notin {"CONTINUE_SKIP_PADDING_BITS", "END_PKT"}) =>
           pos.headOffsetInCurPktBits <= pos.curExpectedPktContentLenBits
    /\ pos.curExpectedPktTotalLenBits # SIZE_UNSET =>
           pos.headOffsetInCurPktBits <= pos.curExpectedPktTotalLenBits

\* the padding after the content of a packet was skipped: the head is beyond
\* the content, at the end of the packet
C11_Witness ==
    /\ pos.theState = "END_PKT" /\ err = NoErr
    /\ pos.curExpectedPktTotalLenBits # SIZE_UNSET
    /\ pos.curExpectedPktContentLenBits < pos.headOffsetInCurPktBits
    /\ pos.headOffsetInCurPktBits = pos.curExpectedPktTotalLenBits

\* C12 as stated: the offset of the current packet in the element sequence
\* is a multiple of 8 in every state, and the assertion of _stateEndPkt()
\* never fails
C12_PktOffsetByteAligned ==
    /\ pos.curPktOffsetInElemSeqBits % 8 = 0
    /\ ~(err = AssertionFailed /\ pos.theState = "END_PKT")

\* C13 as stated: the offset of the head in the element sequence
\* (curPktOffsetInElemSeqBits + headOffsetInCurPktBits) never decreases
C13_OffsetMonotone ==
    [][headOffsetInElemSeqBits(pos') >= headOffsetInElemSeqBits(pos)]_vars

\* C13: the offset of the head in the element sequence never decreases from
\* one state handler to the next, hence from one element to the next, except
\* when a saved position is restored
C13_OffsetMonotoneButRestore ==
    [][(sv.st = "saved" /\ sv'.st = "restored")
          \/ headOffsetInElemSeqBits(pos') >= headOffsetInElemSeqBits(pos)]_vars

\* an element of a packet that is not the first one was emitted after a
\* position was restored, further in the element sequence than the element
\* before it
C13_Witness ==
    /\ Emitted /\ err = NoErr /\ sv.st = "restored" /\ Len(sv.replay) >= 2
    /\ pos.curPktOffsetInElemSeqBits > 0
    /\ gh.prev # <<>> /\ gh.prev[1] < gh.cur[1]
    /\ gh.cur[1] = headOffsetInElemSeqBits(pos)

\* C14: every bit array read that completes starts on a byte boundary or has
\* the byte order of the bit array read before it in the packet; an advance
\* that fails with ByteOrderChangeWithinByte refused a bit array within a
\* byte whose byte order is not that one, left the head where the alignment
\* put it, left lastBo as it was and emitted no element
C14_ByteOrder ==
    /\ \A i \in DOMAIN gh.log :
           (gh.log[i].op = "readBitArray"
               /\ ~(err = "ByteOrderChangeWithinByte" /\ i = Len(gh.log))) =>
               \/ gh.log[i].head % 8 = 0
               \/ gh.log[i].bo = gh.log[i].lastBo
    /\ err = "ByteOrderChangeWithinByte" =>
           /\ gh.log # <<>>
           /\ gh.log[Len(gh.log)].op = "readBitArray"
           /\ gh.log[Len(gh.log)].head % 8 # 0
           /\ gh.log[Len(gh.log)].bo # gh.log[Len(gh.log)].lastBo
           /\ pos.headOffsetInCurPktBits = gh.log[Len(gh.log)].head
           /\ pos.lastBo = gh.log[Len(gh.log)].lastBo
           /\ gh.emits = 0

\* a big-endian bit array was refused at bit 4 of a byte, after a
\* little-endian one
C14_Witness ==
    /\ err = "ByteOrderChangeWithinByte" /\ ~running
    /\ pos.headOffsetInCurPktBits % 8 = 4
    /\ pos.lastBo = "le"
    /\ gh.log[Len(gh.log)].bo = "be"
    /\ gh.emits = 0

\* C15 as stated: a saved value read as the length of a dynamic array or as
\* the selector of a variant is not the UNSET sentinel, and the assertion of
\* the handler that reads it does not fail
C15_SavedValSet ==
    /\ \A i \in DOMAIN gh.log :
           gh.log[i].op = "savedVal" => gh.log[i].val # SAVED_VAL_UNSET
    /\ ~(err = AssertionFailed /\ gh.log # <<>>
            /\ gh.log[Len(gh.log)].op = "savedVal")

\* the data source returned no data to the state handler that ran last
NoData == \E i \in DOMAIN gh.log : gh.log[i].op = "data" /\ gh.log[i].ret = 0

\* C16: when the data source returns no data, either the handler is
\* _stateBeginPkt() with an empty window and the iterator is put at the end
\* without error, or it is _stateBeginEr() in a packet without expected
\* content length and the content of the packet is ended without error, or
\* the advance fails with PrematureEndOfData
C16_NoData ==
    NoData =>
        \/ /\ gh.st0 = "BEGIN_PKT" /\ err = NoErr /\ ~running /\ AtEnd
           /\ _remBitsInBuf(M) = 0 /\ pos.theState = "BEGIN_PKT"
        \/ /\ gh.st0 = "BEGIN_ER" /\ err = NoErr /\ running
           /\ pos.curExpectedPktContentLenBits = SIZE_UNSET
           /\ pos.theState = "END_PKT_CONTENT"
        \/ err = "PrematureEndOfData" /\ ~running

\* no data was left where an event record of a packet without expected
\* content length could begin: the content of the packet ends
C16_Witness ==
    /\ NoData /\ gh.st0 = "BEGIN_ER" /\ err = NoErr
    /\ pos.curExpectedPktContentLenBits = SIZE_UNSET
    /\ pos.theState = "END_PKT_CONTENT"

\* C17: in a run without error, PacketContentBeginning and nothing else
\* follows PacketBeginning; every element is within a packet and, but for
\* PacketBeginning and the End of the packet, within its content; an
\* EventRecordBeginning is emitted with no event record open, straight in
\* the content; after the End of an event record comes an
\* EventRecordBeginning or the End of the content (so the preamble
\* elements are before the event records); the End of the packet and
\* nothing else follows the End of the content; PacketBeginning and nothing
\* else follows the End of a packet
C17_PktOrder ==
    (~gh.errSeen /\ gh.site # <<"none", "none">>) =>
        /\ (gh.site = <<"begin", "PktContent">>) = (gh.prevSite = <<"begin", "Pkt">>)
        /\ (gh.site = <<"end", "Pkt">>) = (gh.prevSite = <<"end", "PktContent">>)
        /\ (gh.site = <<"begin", "Pkt">>) =
               (gh.prevSite \in {<<"none", "none">>, <<"end", "Pkt">>})
        /\ (gh.open = <<>>) = (gh.site = <<"end", "Pkt">>)
        /\ gh.open # <<>> => gh.open[1] = "Pkt"
        /\ Len(gh.open) = 1 =>
               gh.site \in {<<"begin", "Pkt">>, <<"end", "PktContent">>}
        /\ Len(gh.open) >= 2 => gh.open[2] = "PktContent"
        /\ gh.site = <<"begin", "Er">> => gh.open = <<"Pkt", "PktContent", "Er">>
        /\ gh.site = <<"end", "Er">> => gh.open = <<"Pkt", "PktContent">>
        /\ gh.prevSite = <<"end", "Er">> =>
               gh.site \in {<<"begin", "Er">>, <<"end", "PktContent">>}
        /\ gh.site = <<"end", "PktContent">> =>
               gh.prevSite \notin {<<"begin", "Pkt">>, <<"begin", "Er">>}

\* the second packet of an element sequence begins after the End of the
\* first one
C17_Witness ==
    /\ Emitted /\ ~gh.errSeen
    /\ gh.site = <<"begin", "Pkt">> /\ gh.prevSite = <<"end", "Pkt">>
    /\ pos.curPktOffsetInElemSeqBits > 0

\* the data stream type or event record type IDs that SET_DST or SET_ERT, as
\* logged, can select
KnownIds(e) ==
    IF e.kind = "SET_DST" THEN DOMAIN PktProcs[pos.pktProc].dsts
    ELSE DOMAIN PktProcs[pos.pktProc].dsts[e.dst].erts

\* the ID that SET_DST or SET_ERT, as logged, is to look up
WantedId(e) == IF e.fixedId # -1 THEN e.fixedId ELSE e.curId

\* C18: SET_DST (SET_ERT) makes the type whose ID is the fixed ID of the
\* instruction, else curId, the current data stream type (event record
\* type); when there is no such type the advance fails with
\* UnknownDataStreamType (UnknownEventRecordType), which carries that ID and
\* the offset of the head in the element sequence
C18_SetType ==
    \A i \in DOMAIN gh.log :
        (gh.log[i].op = "setType" /\ ~Halted) =>
            IF WantedId(gh.log[i]) \in KnownIds(gh.log[i])
            THEN /\ err \notin {"UnknownDataStreamType", "UnknownEventRecordType"}
                 /\ gh.log[i].kind = "SET_DST" => pos.curDsPktProc = WantedId(gh.log[i])
                 /\ gh.log[i].kind = "SET_ERT" => pos.curErProc = WantedId(gh.log[i])
            ELSE /\ err = IF gh.log[i].kind = "SET_DST" THEN "UnknownDataStreamType"
                          ELSE "UnknownEventRecordType"
                 /\ i = Len(gh.log)
                 /\ gh.errInfo = <<headOffsetInElemSeqBits(pos), WantedId(gh.log[i])>>

\* the event record header holds the ID 9 of no event record type: the error
\* carries 9 and the offset after the header
C18_Witness ==
    /\ err = "UnknownEventRecordType" /\ ~running
    /\ gh.errInfo = <<headOffsetInElemSeqBits(pos), 9>>
    /\ gh.errInfo[1] = 32
    /\ pos.curId = 9 /\ pos.curErProc = -1

\* C19 as stated: a request to the data source is not before the one made
\* before it, and asks for none of the bytes that one asked for
C19_RequestOnce ==
    gh.req[1] # <<>> =>
        /\ gh.req[1].offset <= gh.req[2].offset
        /\ gh.req[1].offset + gh.req[1].size <= gh.req[2].offset

\* C19: a request to the data source is not before the one made before it,
\* and begins at the byte that holds the head: no byte that the head has
\* passed is requested again
C19_RequestForward ==
    /\ gh.req[1] # <<>> => gh.req[1].offset <= gh.req[2].offset
    /\ gh.req[2] # <<>> =>
           /\ gh.req[2].offset = gh.req[2].head \div 8
           /\ gh.req[2].head <= headOffsetInElemSeqBits(pos)

\* twelve bits were read at bit 4 of a byte that was requested before: the
\* request begins at that byte again
C19_Witness ==
    /\ err = NoErr /\ gh.req[1] # <<>>
    /\ gh.req[2].head % 8 = 4
    /\ gh.req[2].offset = gh.req[1].offset
    /\ gh.req[2].size = 2 /\ gh.req[1].size = 1
    /\ headOffsetInElemSeqBits(pos) = gh.req[2].head + 12

\* C20: once an advance has thrown a decoding error, no further advance
\* fails an assertion of the VM (a pop or a top of an empty stack, a
\* procedure loaded on a stack that is not empty, a state or a length that
\* is not the expected one) or reads bits that the window does not hold
C20_NoAssertAfterError ==
    gh.decErr => ~Halted

\* CannotDecodeDataBeyondPacketContent was thrown where an event record
\* begins, and the advance made after it threw it again
C20_Witness ==
    /\ gh.decErr /\ ~running
    /\ err = "CannotDecodeDataBeyondPacketContent"
    /\ gh.st0 = "BEGIN_ER" /\ pos.theState = "BEGIN_ER"
    /\ pos.stack = <<>>

\* an element seen by a VM whose element sequence begins d bits further
ShiftSeen(e, d) ==
    IF e.offset = END_OFFSET /\ e.mark = 0 THEN e
    ELSE [e EXCEPT !.offset = UAdd(@, d)]

\* C21: after seekPkt(b) the iterator is at a PacketBeginning with offset 8 b
\* and mark 1, or at the end of the element sequence, and the offset of the
\* packet is 8 b; the elements seen from then on are those that a new VM
\* sees on the element sequence that begins at byte b, b bytes further
C21_SeekPkt ==
    (sv.st \in {"saved", "restored"} /\ Len(sv.sp) = 2) =>
        /\ \/ sv.ref[1].kind = "END"
           \/ /\ sv.ref[1].kind = "pktBeginning"
              /\ sv.ref[1].offset = 8 * sv.sp[1]
              /\ sv.ref[1].mark = 1
        /\ (sv.st = "saved" /\ Len(sv.ref) = 1) =>
               /\ pos.curPktOffsetInElemSeqBits = 8 * sv.sp[1]
               /\ pos.headOffsetInCurPktBits = 0
        /\ sv.st = "restored" =>
               \A i \in 1 .. Len(sv.replay) :
                   ShiftSeen(sv.replay[i], 8 * sv.sp[1]) = sv.ref[i]

\* a VM that had emitted elements sought the second packet at byte 11, and
\* a new VM saw the same elements of that packet
C21_Witness ==
    /\ sv.st = "restored" /\ Len(sv.sp) = 2 /\ sv.sp = <<11, TRUE>>
    /\ Len(sv.replay) = MaxK /\ ~running
    /\ sv.ref[1].kind = "pktBeginning" /\ sv.ref[1].offset = 88
    /\ sv.replay[MaxK].kind \notin {"END", "pktBeginning"}
    /\ ShiftSeen(sv.replay[MaxK], 88) = sv.ref[MaxK]

C23_ByteAlignedSubstr ==
    pos.theState \in {"READ_SUBSTR", "READ_SUBSTR_UNTIL_NULL", "READ_UUID_BYTE"} =>
        /\ pos.headOffsetInCurPktBits % 8 = 0
        /\ err # AssertionFailed

\* a string begins at bit 16, after a 4-bit field at bit 8 and 4 bits of
\* padding
C23_Witness ==
    /\ pos.theState = "READ_SUBSTR_UNTIL_NULL" /\ Emitted /\ err = NoErr
    /\ it.elem = "strBeginning" /\ it.offset = 16
    /\ gh.prevSite = <<"data", "uInt">> /\ gh.prev[1] = 8
    /\ pos.lastBo = "le"
    /\ pos.headOffsetInCurPktBits = 16

\* C24: an update of length L from an integer v < 2^L sets the clock value
\* to v when L is the length of a word; otherwise the low L bits of the new
\* value are v and its other bits are those of the old value plus, when v is
\* less than the low L bits of the old value, one wrap of 2^L, modulo the
\* word
C24_ClkUpdate ==
    (gh.clk.cur # <<>> /\ gh.clk.v < 2 ^ gh.clk.len) =>
        IF gh.clk.len = WordBits
        THEN gh.clk.cur[1] = gh.clk.v
        ELSE /\ (gh.clk.cur[1] % (2 ^ gh.clk.len)) = gh.clk.v
             /\ gh.clk.cur[1] - gh.clk.v =
                    ((gh.clk.old - (gh.clk.old % (2 ^ gh.clk.len)))
                     + (IF gh.clk.v < (gh.clk.old % (2 ^ gh.clk.len))
                        THEN 2 ^ gh.clk.len ELSE 0)) % WordMod

\* updates of half a word from 0: 0xF0 gives 0xF0, then 0x10 gives 0x110
C24_Witness ==
    /\ gh.clk.len = 8 /\ gh.clk.prev = <<240>> /\ gh.clk.old = 240
    /\ gh.clk.v = 16 /\ gh.clk.cur = <<272>>

\* the begin-variant instruction the frame under the top one has just
\* left, and the selector it designates
VarInstrLeft == RawProc(pos, pos.stack[Len(pos.stack) - 1].proc)
                    [pos.stack[Len(pos.stack) - 1].it - 1]

SelValOf(instr) ==
    IF instr.kind = "BEGIN_READ_VAR_SSEL" THEN AsSigned(pos.savedVals[instr.pos])
    ELSE pos.savedVals[instr.pos]

OptContains(opt, selVal) == opt.lower <= selVal /\ selVal <= opt.upper

\* C25: a variant beginning carries the saved selector (as a signed integer
\* for a signed selector), the outer cursor is past the begin-variant
\* instruction, the top frame is at the start of the procedure of the first
\* option, in the order of the options, that contains the selector, and the
\* state is EXEC_INSTR; the invalid selector errors are those of a
\* begin-variant instruction no option of which contains the selector
C25_BeginVar ==
    /\ (Emitted /\ err = NoErr /\ it.elem \in {"varSSelBeginning", "varUSelBeginning"}) =>
           /\ Len(pos.stack) >= 2
           /\ pos.stack[Len(pos.stack) - 1].it >= 2
           /\ VarInstrLeft.kind = (IF it.elem = "varSSelBeginning"
                                   THEN "BEGIN_READ_VAR_SSEL" ELSE "BEGIN_READ_VAR_USEL")
           /\ pos.elems[it.elem] = <<SelValOf(VarInstrLeft)>>
           /\ pos.theState = "EXEC_INSTR"
           /\ stackTop(pos).it = 1
           /\ \E i \in 1 .. Len(VarInstrLeft.opts) :
                  /\ OptContains(VarInstrLeft.opts[i], SelValOf(VarInstrLeft))
                  /\ \A j \in 1 .. i - 1 :
                         ~OptContains(VarInstrLeft.opts[j], SelValOf(VarInstrLeft))
                  /\ stackTop(pos).proc = VarInstrLeft.opts[i].proc
    /\ (err \in {"InvalidVariantSignedSelectorValue",
                 "InvalidVariantUnsignedSelectorValue"}) =>
           /\ pos.stack # <<>> /\ ~AtProcEnd(pos)
           /\ nextInstr(pos).kind = (IF err = "InvalidVariantSignedSelectorValue"
                                     THEN "BEGIN_READ_VAR_SSEL" ELSE "BEGIN_READ_VAR_USEL")
           /\ \A i \in 1 .. Len(nextInstr(pos).opts) :
                  ~OptContains(nextInstr(pos).opts[i], SelValOf(nextInstr(pos)))

\* a selector that two options contain: the procedure of the first one is
\* pushed
C25_Witness ==
    /\ Emitted /\ err = NoErr /\ it.elem = "varUSelBeginning"
    /\ Len(pos.stack) >= 2
    /\ pos.elems[it.elem] = <<5>>
    /\ Cardinality({i \in 1 .. Len(VarInstrLeft.opts) :
                        OptContains(VarInstrLeft.opts[i], 5)}) = 2
    /\ stackTop(pos).proc = "v0"

\* C26: an instruction that sets the expected total length from a candidate
\* t fails because t is no multiple of 8, else because the content length is
\* set and t is less than it, else because t is less than the head, and
\* otherwise sets the total length to t; one that sets the expected content
\* length from a candidate c fails because the total length is set and less
\* than c, else because c is less than the head, and otherwise sets the
\* content length to c; a failure leaves both lengths as they were
C26_SetLen ==
    \A i \in DOMAIN gh.log :
        /\ gh.log[i].op = "setPktTotalLen" =>
               /\ gh.log[i].err =
                      (IF gh.log[i].cand % 8 # 0
                       THEN "ExpectedPacketTotalLengthNotMultipleOf8"
                       ELSE IF gh.log[i].content # SIZE_UNSET
                               /\ gh.log[i].cand < gh.log[i].content
                       THEN "ExpectedPacketTotalLengthLessThanExpectedPacketContentLength"
                       ELSE IF gh.log[i].cand < gh.log[i].head
                       THEN "ExpectedPacketTotalLengthLessThanOffsetInPacket"
                       ELSE NoErr)
               /\ gh.log[i].newTotal =
                      (IF gh.log[i].err = NoErr THEN gh.log[i].cand ELSE gh.log[i].total)
               /\ gh.log[i].err # NoErr => gh.log[i].newContent = gh.log[i].content
        /\ gh.log[i].op = "setPktContentLen" =>
               /\ gh.log[i].err =
                      (IF gh.log[i].total # SIZE_UNSET
                          /\ gh.log[i].total < gh.log[i].cand
                       THEN "ExpectedPacketTotalLengthLessThanExpectedPacketContentLength"
                       ELSE IF gh.log[i].cand < gh.log[i].head
                       THEN "ExpectedPacketContentLengthLessThanOffsetInPacket"
                       ELSE NoErr)
               /\ gh.log[i].newContent =
                      (IF gh.log[i].err = NoErr THEN gh.log[i].cand ELSE gh.log[i].content)
               /\ gh.log[i].newTotal = gh.log[i].total

\* a candidate total length that is less than the content length and less
\* than the head: the error is the one about the content length
C26_Witness ==
    /\ err = "ExpectedPacketTotalLengthLessThanExpectedPacketContentLength"
    /\ \E i \in DOMAIN gh.log :
           /\ gh.log[i].op = "setPktTotalLen"
           /\ gh.log[i].cand % 8 = 0
           /\ gh.log[i].content # SIZE_UNSET
           /\ gh.log[i].cand < gh.log[i].content
           /\ gh.log[i].cand < gh.log[i].head

\* the least multiple of align that is not less than head
AlignUp(head, align) == ((head + align - 1) \div align) * align

\* C27 as stated: a call of _alignHead(A) that succeeds leaves the head at
\* the least multiple of A that is not less than the head before it, less
\* than A bits further, the state as it was and no bits to skip; one whose
\* padding is longer than the content left fails with
\* CannotDecodeDataBeyondPacketContent, the head and the state as they were
C27_AlignHead ==
    \A i \in DOMAIN gh.align :
        /\ gh.align[i].err = NoErr =>
               /\ gh.align[i].newHead = AlignUp(gh.align[i].head, gh.align[i].align)
               /\ gh.align[i].newHead % gh.align[i].align = 0
               /\ gh.align[i].newHead - gh.align[i].head < gh.align[i].align
               /\ gh.align[i].newSt = gh.align[i].st
               /\ gh.align[i].newSkip = 0
        /\ AlignUp(gh.align[i].head, gh.align[i].align) - gh.align[i].head
               > gh.align[i].rem =>
               /\ gh.align[i].err = "CannotDecodeDataBeyondPacketContent"
               /\ gh.align[i].newHead = gh.align[i].head
               /\ gh.align[i].newSt = gh.align[i].st

\* C27: a call of _alignHead(A) that succeeds leaves the head at the least
\* multiple of A that is not less than the head before it, less than A bits
\* further and the state as it was; it leaves no bits to skip if it moved
\* the head, and the number of bits to skip as it was if it did not; one
\* whose padding is longer than the content left fails with
\* CannotDecodeDataBeyondPacketContent, the head and the state as they were
C27_AlignHeadSkipped ==
    \A i \in DOMAIN gh.align :
        /\ gh.align[i].err = NoErr =>
               /\ gh.align[i].newHead = AlignUp(gh.align[i].head, gh.align[i].align)
               /\ gh.align[i].newHead % gh.align[i].align = 0
               /\ gh.align[i].newHead - gh.align[i].head < gh.align[i].align
               /\ gh.align[i].newSt = gh.align[i].st
               /\ gh.align[i].newSkip = (IF gh.align[i].newHead = gh.align[i].head
                                         THEN gh.align[i].skip ELSE 0)
        /\ AlignUp(gh.align[i].head, gh.align[i].align) - gh.align[i].head
               > gh.align[i].rem =>
               /\ gh.align[i].err = "CannotDecodeDataBeyondPacketContent"
               /\ gh.align[i].newHead = gh.align[i].head
               /\ gh.align[i].newSt = gh.align[i].st

\* after a seek that follows a skip the data source cut short, a call that
\* finds the head aligned succeeds and keeps the bits to skip left over
C27_Witness ==
    /\ err = NoErr /\ sv.st = "saved"
    /\ \E i \in DOMAIN gh.align :
           /\ gh.align[i].err = NoErr
           /\ gh.align[i].skip > 0
           /\ gh.align[i].newHead = gh.align[i].head
           /\ gh.align[i].newSt = gh.align[i].st
           /\ gh.align[i].newSkip = gh.align[i].skip

SkipStates == {"CONTINUE_SKIP_PADDING_BITS", "CONTINUE_SKIP_CONTENT_PADDING_BITS"}

\* the head and the bits to skip that the turn after turn i of the loop
\* finds, or that the handler leaves if turn i is its last one
AfterSkip(i) ==
    IF i < Len(gh.skips)
    THEN [head |-> gh.skips[i + 1].head, rem |-> gh.skips[i + 1].rem]
    ELSE [head |-> pos.headOffsetInCurPktBits, rem |-> pos.remBitsToSkip]

\* every turn of the loop finds a bit in the window and consumes the lesser
\* of the bits to skip and the bits of the window: a turn that leaves bits
\* to skip is followed by a turn that finds the head further by the bits of
\* the window and as many bits to skip fewer, or by an error; a turn that
\* leaves none has moved the head by the bits to skip
SkipTurnsOk ==
    \A i \in DOMAIN gh.skips :
        /\ gh.skips[i].inBuf >= 1
        /\ gh.skips[i].rem >= 1
        /\ IF gh.skips[i].rem > gh.skips[i].inBuf
           THEN /\ AfterSkip(i).head = gh.skips[i].head + gh.skips[i].inBuf
                /\ AfterSkip(i).rem = gh.skips[i].rem - gh.skips[i].inBuf
                /\ i = Len(gh.skips) => err # NoErr
           ELSE /\ AfterSkip(i).head >= gh.skips[i].head + gh.skips[i].rem
                /\ i = Len(gh.skips) => pos.remBitsToSkip = 0

\* C28: a skip of padding bits ends with the head further by the number of
\* bits to skip, whatever the windows of the data source are: every turn of
\* its loop finds a bit and consumes the lesser of the bits to skip and the
\* bits of the window, the sum of the head and the bits to skip stays the
\* same, across the advances that an error ends too, and once no bits are
\* left to skip the state is the one to go to after the skip
C28_PaddingSkip ==
    [][/\ SkipTurnsOk'
       /\ pos.theState \in SkipStates =>
              /\ pos'.headOffsetInCurPktBits + pos'.remBitsToSkip =
                     pos.headOffsetInCurPktBits + pos.remBitsToSkip
              /\ IF err' = NoErr
                 THEN /\ pos'.remBitsToSkip = 0
                      /\ pos'.theState = pos.postSkipBitsState
                      /\ pos'.theState \notin SkipStates
                 ELSE /\ pos'.theState = pos.theState
                      /\ pos'.remBitsToSkip > 0]_vars

\* the padding of four bytes after the content of a packet was skipped in
\* four windows of one byte
C28_Witness ==
    /\ src.blk = 1 /\ err = NoErr /\ running
    /\ gh.st0 = "CONTINUE_SKIP_PADDING_BITS"
    /\ pos.theState = "END_PKT"
    /\ Len(gh.skips) = 4
    /\ \A i \in 1 .. 4 : gh.skips[i].rem = 8 * (5 - i) /\ gh.skips[i].inBuf = 8
    /\ pos.headOffsetInCurPktBits = gh.skips[1].head + 32
    /\ pos.remBitsToSkip = 0

\* the machine before a step with the window and the data source after it
Refilled == [M EXCEPT !.buf = buf', !.src = src']

\* the bytes of the window from the head on, and the size of the substring
\* they give: up to the first null byte if there is one, all of them if not
WindowAtHead(m) == BufBytes(m, _remBitsInBuf(m) \div 8)

UntilNull(bytes) ==
    IF \E i \in DOMAIN bytes : bytes[i] = 0
    THEN CHOOSE i \in DOMAIN bytes :
             bytes[i] = 0 /\ \A j \in 1 .. i - 1 : bytes[j] # 0
    ELSE Len(bytes)

\* C29: an advance in state READ_SUBSTR_UNTIL_NULL that succeeds emits, at
\* the head, a substring that is not empty and is the bytes of the window
\* from the head up to the first null byte, null byte included, the state
\* becoming END_STR, or up to the end of the window if it holds no null
\* byte, the state staying as it is; the head is then further by the size of
\* the substring, which is not beyond the content; an advance that fails
\* leaves the head and the state, and fails with
\* CannotDecodeDataBeyondPacketContent precisely if the content has no byte
\* left or the substring would end beyond it
C29_SubstrUntilNull ==
    [][pos.theState = "READ_SUBSTR_UNTIL_NULL" =>
          IF err' = NoErr
          THEN /\ ~running' /\ it'.elem = "substr"
               /\ it'.offset = headOffsetInElemSeqBits(pos)
               /\ pos'.elems["substr"] # <<>>
               /\ pos'.elems["substr"] =
                      SubSeq(WindowAtHead(Refilled), 1, UntilNull(WindowAtHead(Refilled)))
               /\ pos'.elems["substr"] =
                      SubSeq(src.data, (it'.offset \div 8) + 1,
                             (it'.offset \div 8) + Len(pos'.elems["substr"]))
               /\ pos'.headOffsetInCurPktBits =
                      pos.headOffsetInCurPktBits + 8 * Len(pos'.elems["substr"])
               /\ 8 * Len(pos'.elems["substr"]) <= remContentBitsInPkt(pos)
               /\ pos'.theState =
                      (IF pos'.elems["substr"][Len(pos'.elems["substr"])] = 0
                       THEN "END_STR" ELSE "READ_SUBSTR_UNTIL_NULL")
               /\ pos'.theState = "READ_SUBSTR_UNTIL_NULL" => _remBitsInBuf(M)' = 0
          ELSE /\ pos'.headOffsetInCurPktBits = pos.headOffsetInCurPktBits
               /\ pos'.theState = pos.theState
               /\ err' = "CannotDecodeDataBeyondPacketContent" <=>
                      \/ remContentBitsInPkt(pos) < 8
                      \/ 8 * UntilNull(WindowAtHead(Refilled)) > remContentBitsInPkt(pos)]_vars

\* a string of two bytes and its terminator read from windows of two bytes:
\* the second substring is the terminator
C29_Witness ==
    /\ ~running /\ err = NoErr /\ src.blk = 2
    /\ gh.st0 = "READ_SUBSTR_UNTIL_NULL" /\ pos.theState = "END_STR"
    /\ gh.prevSite = <<"data", "substr">>
    /\ it.elem = "substr" /\ pos.elems["substr"] = <<0>>
    /\ it.offset = gh.prev[1] + 16

TextArrayBeginnings == {"staticTextArrayBeginning", "dynTextArrayBeginning"}

\* C30: the beginning of a text array of N bytes leaves the state
\* READ_SUBSTR and N elements to read in the top frame; an advance in state
\* READ_SUBSTR with elements to read that succeeds emits, at the head, a
\* substring that is not empty, of the lesser of the bytes of the window
\* and the elements to read, moves the head by its size and subtracts its
\* size from the elements to read of the top frame; with no elements to
\* read the handler pops the frame and sets the state of the parent,
\* nothing being emitted, so that the sizes of the substrings of the array
\* add up to N and an array of no bytes has no substring
C30_TextArray ==
    [][/\ (err' = NoErr /\ ~running' /\ gh'.emits >= 1
           /\ it'.elem \in TextArrayBeginnings /\ gh'.site[1] = "begin") =>
              /\ pos'.theState = "READ_SUBSTR"
              /\ stackTop(pos').remElems = pos'.elems[it'.elem][1]
       /\ pos.theState = "READ_SUBSTR" =>
              IF stackTop(pos).remElems = 0
              THEN /\ err' = NoErr /\ running'
                   /\ pos'.stack = SubSeq(pos.stack, 1, Len(pos.stack) - 1)
                   /\ pos'.theState = stackTop(pos).parentState
                   /\ it' = it /\ gh'.emits = 0
                   /\ pos'.headOffsetInCurPktBits = pos.headOffsetInCurPktBits
              ELSE IF err' = NoErr
              THEN /\ ~running' /\ it'.elem = "substr"
                   /\ it'.offset = headOffsetInElemSeqBits(pos)
                   /\ pos'.elems["substr"] # <<>>
                   /\ Len(pos'.elems["substr"]) =
                          Min(Len(WindowAtHead(Refilled)), stackTop(pos).remElems)
                   /\ pos'.elems["substr"] =
                          SubSeq(src.data, (it'.offset \div 8) + 1,
                                 (it'.offset \div 8) + Len(pos'.elems["substr"]))
                   /\ pos'.headOffsetInCurPktBits =
                          pos.headOffsetInCurPktBits + 8 * Len(pos'.elems["substr"])
                   /\ pos'.stack =
                          [pos.stack EXCEPT ![Len(pos.stack)].remElems =
                                                @ - Len(pos'.elems["substr"])]
                   /\ pos'.theState = "READ_SUBSTR"
              ELSE /\ pos'.headOffsetInCurPktBits = pos.headOffsetInCurPktBits
                   /\ pos'.stack = pos.stack
                   /\ pos'.theState = pos.theState]_vars

\* a text array of three bytes read as two substrings, no elements left to
\* read
C30_Witness ==
    /\ ~running /\ err = NoErr /\ src.blk = 2
    /\ gh.st0 = "READ_SUBSTR" /\ pos.theState = "READ_SUBSTR"
    /\ gh.prevSite = <<"data", "substr">>
    /\ it.elem = "substr"
    /\ pos.stack # <<>> /\ stackTop(pos).remElems = 0
    /\ it.offset - gh.prev[1] = 8 * (3 - Len(pos.elems["substr"]))
    /\ Len(pos.elems["substr"]) \in 1 .. 2

\* C31: the beginning of the UUID array leaves 16 elements to read; an
\* advance in state READ_UUID_BYTE with k elements read and some left reads
\* the byte at the head, stores it at index k = 16 - remElems of the UUID,
\* an index within 0 .. 15, and leaves one element less to read; with none
\* left the state becomes SET_TRACE_TYPE_UUID, whose handler emits one trace
\* type UUID element that carries the 16 bytes in the order of the stream,
\* pops the frame and sets the state of the parent
C31_Uuid ==
    [][/\ (pos.theState # "READ_UUID_BYTE" /\ pos'.theState = "READ_UUID_BYTE") =>
              /\ it'.elem = "staticArrayBeginning"
              /\ stackTop(pos').remElems = 16
       /\ pos.theState = "READ_UUID_BYTE" =>
              IF stackTop(pos).remElems = 0
              THEN /\ pos'.theState = "SET_TRACE_TYPE_UUID" /\ running'
                   /\ it' = it /\ pos'.uuid = pos.uuid /\ pos'.stack = pos.stack
              ELSE IF err' = NoErr
              THEN /\ 16 - stackTop(pos).remElems \in 0 .. 15
                   /\ ~running' /\ it'.elem = "uInt"
                   /\ pos'.headOffsetInCurPktBits = pos.headOffsetInCurPktBits + 8
                   /\ pos'.uuid =
                          [pos.uuid EXCEPT ![16 - stackTop(pos).remElems] =
                              src.data[(headOffsetInElemSeqBits(pos) \div 8) + 1]]
                   /\ pos'.stack =
                          [pos.stack EXCEPT ![Len(pos.stack)].remElems = @ - 1]
                   /\ pos'.theState = "READ_UUID_BYTE"
              ELSE pos'.uuid = pos.uuid /\ pos'.stack = pos.stack
       /\ pos.theState = "SET_TRACE_TYPE_UUID" =>
              /\ err' = NoErr /\ ~running' /\ gh'.emits = 1
              /\ it'.elem = "traceTypeUuid"
              /\ it'.offset = headOffsetInElemSeqBits(pos)
              /\ pos'.elems["traceTypeUuid"] =
                     SubSeq(src.data, (it'.offset \div 8) - 15, it'.offset \div 8)
              /\ pos'.stack = SubSeq(pos.stack, 1, Len(pos.stack) - 1)
              /\ pos'.theState = stackTop(pos).parentState]_vars

\* the trace type UUID element carries the 16 bytes that follow the magic
\* number
C31_Witness ==
    /\ ~running /\ err = NoErr /\ gh.st0 = "SET_TRACE_TYPE_UUID"
    /\ it.elem = "traceTypeUuid" /\ it.offset = 136
    /\ pos.elems["traceTypeUuid"] = [i \in 1 .. 16 |-> i]
    /\ pos.theState = "EXEC_INSTR"

\* C32: the handler of state END_PKT adds the head to the offset of the
\* packet and sets the head to 0; with an expected total length the window
\* begins at the next packet, at offset 0, and holds the same bits not yet
\* read, at the same place in the data; without one the window is empty;
\* the end of the packet is emitted at the offset the head was at and the
\* state is BEGIN_PKT
C32_EndPkt ==
    [][pos.theState = "END_PKT" =>
          /\ err' = NoErr /\ ~running'
          /\ pos'.curPktOffsetInElemSeqBits =
                 UAdd(pos.curPktOffsetInElemSeqBits, pos.headOffsetInCurPktBits)
          /\ pos'.headOffsetInCurPktBits = 0
          /\ IF pos.curExpectedPktTotalLenBits # SIZE_UNSET
             THEN /\ buf'.off = 0
                  /\ _remBitsInBuf(M)' = _remBitsInBuf(M)
                  /\ src' = src
                  /\ buf.addr # -1 => HeadBitAddr(M)' = HeadBitAddr(M)
             ELSE buf' = [addr |-> -1, len |-> 0, off |-> 0]
          /\ it'.elem = "end" /\ gh'.site = <<"end", "Pkt">>
          /\ it'.offset = headOffsetInElemSeqBits(pos)
          /\ pos'.theState = "BEGIN_PKT"]_vars

\* C33: the handler of state BEGIN_PKT leaves the head at 0, the default
\* clock value at 0, every saved value and both expected lengths unset, no
\* last byte order, no data stream type and no event record type, and the
\* offset of the packet as it was; at the end of the element sequence it
\* leaves the stack empty and the state BEGIN_PKT, and otherwise the stack
\* holds the preamble procedure of the packet alone
C33_ResetForNewPkt ==
    [][pos.theState = "BEGIN_PKT" =>
          /\ err' = NoErr /\ ~running'
          /\ pos'.headOffsetInCurPktBits = 0
          /\ pos'.defClkVal = 0
          /\ \A i \in DOMAIN pos'.savedVals : pos'.savedVals[i] = SAVED_VAL_UNSET
          /\ pos'.curExpectedPktTotalLenBits = SIZE_UNSET
          /\ pos'.curExpectedPktContentLenBits = SIZE_UNSET
          /\ pos'.lastBo = "none"
          /\ pos'.curDsPktProc = -1 /\ pos'.curErProc = -1
          /\ pos'.curPktOffsetInElemSeqBits = pos.curPktOffsetInElemSeqBits
          /\ IF AtEnd'
             THEN pos'.stack = <<>> /\ pos'.theState = "BEGIN_PKT"
             ELSE /\ pos'.stack =
                        <<VmStackFrame(PktProcs[pos.pktProc].preambleProc, "BEGIN_PKT")>>
                  /\ pos'.theState = "BEGIN_PKT_CONTENT"
                  /\ it'.elem = "pktBeginning" /\ it'.mark = 1
                  /\ it'.offset = pos.curPktOffsetInElemSeqBits]_vars

\* the beginning of the second packet of an element sequence whose first
\* packet updated the default clock value
C33_Witness ==
    /\ ~running /\ err = NoErr /\ pos.pktProc = 4
    /\ it.elem = "pktBeginning" /\ it.offset = 48
    /\ pos.curPktOffsetInElemSeqBits = 48
    /\ pos.theState = "BEGIN_PKT_CONTENT"
    /\ pos.defClkVal = 0
    /\ src.data[3] % 16 # 0

\* the End element of an array whose elements are executed by procedure
ArrayEnded ==
    /\ Emitted /\ it.elem = "end"
    /\ gh.site \in {<<"end", "StaticArray">>, <<"end", "DynArray">>}
    /\ gh.prevSite # <<"data", "traceTypeUuid">>

\* C34: an array of length N, the length its beginning element carries,
\* executes its element procedure exactly N times before its End element
\* (started N times and ended N times, elements with nested arrays,
\* structures and variants included); while the array is open the executions
\* ended and the remaining elements add up to N, and with N = 0 the End
\* element directly follows the beginning
C34_ArrayExecs ==
    /\ pos.theState = "EXEC_ARRAY_INSTR" =>
           /\ pos.stack # <<>> /\ gh.execs # <<>>
           /\ gh.execs[Len(gh.execs)].done + stackTop(pos).remElems
                  = gh.execs[Len(gh.execs)].n
           /\ gh.execs[Len(gh.execs)].started - gh.execs[Len(gh.execs)].done
                  \in {0, 1}
    /\ ArrayEnded =>
           /\ gh.arrDone # <<>>
           /\ gh.arrDone[1].started = gh.arrDone[1].n
           /\ gh.arrDone[1].done = gh.arrDone[1].n
           /\ gh.arrDone[1].n = 0 =>
                  gh.prevSite \in {<<"begin", "StaticArray">>, <<"begin", "DynArray">>}

\* a dynamic array of two elements, each a static array and a variant, has
\* ended, and so has an empty one
C34_Witness ==
    /\ ArrayEnded /\ gh.site = <<"end", "DynArray">> /\ pos.pktProc = 2
    /\ gh.arrDone[1].n = 2 /\ gh.arrDone[1].done = 2 /\ it.offset = 64

C34_WitnessEmpty ==
    /\ ArrayEnded /\ gh.site = <<"end", "DynArray">>
    /\ gh.arrDone[1].n = 0 /\ gh.prevSite = <<"begin", "DynArray">>

EndOfProcMarkers ==
    {"END_PKT_PREAMBLE_PROC", "END_DS_PKT_PREAMBLE_PROC", "END_DS_ER_PREAMBLE_PROC",
     "END_ER_PROC"}

\* C35: an end-of-procedure marker executes with exactly one frame on the
\* stack; loadNewProc() is called with an empty stack, and only in states
\* BEGIN_PKT and BEGIN_ER or right after the marker ending the packet
\* preamble or the event record preamble; the marker ending the event record
\* preamble and state END_ER are reached with the event record type set,
\* and END_ER leaves it unset
C35_EndOfProc ==
    /\ \A i \in 1 .. Len(gh.procs) :
           /\ gh.procs[i].op \in EndOfProcMarkers => gh.procs[i].depth = 1
           /\ gh.procs[i].op = "loadNewProc" =>
                  /\ gh.procs[i].depth = 0
                  /\ \/ gh.procs[i].st \in {"BEGIN_PKT", "BEGIN_ER"} /\ gh.st0 = gh.procs[i].st
                     \/ /\ i > 1
                        /\ gh.procs[i - 1].op \in {"END_PKT_PREAMBLE_PROC",
                                                  "END_DS_ER_PREAMBLE_PROC"}
           /\ gh.procs[i].op \in {"END_DS_ER_PREAMBLE_PROC", "endEr"} =>
                  gh.procs[i].curEr # -1
    /\ \A i \in 1 .. Len(gh.procs) - 1 :
           gh.procs[i].op \in EndOfProcMarkers => gh.procs[i + 1].depth = 0
    /\ (gh.st0 = "END_ER" /\ ~Halted) => pos.curErProc = -1

\* the event record preamble has ended and the procedure of the event record
\* type is loaded, and the event record has ended
C35_Witness ==
    /\ ~running /\ err = NoErr /\ Len(gh.procs) = 2
    /\ gh.procs[1].op = "END_DS_ER_PREAMBLE_PROC" /\ gh.procs[1].curEr = 3
    /\ gh.procs[2].op = "loadNewProc" /\ gh.procs[2].st = "EXEC_INSTR"
    /\ Len(pos.stack) = 2 /\ pos.curErProc = 3

\* C36: the head is within the window, _bufOffsetInCurPktBits <= head <=
\* _bufOffsetInCurPktBits + _bufLenBits, in every state in which the VM goes
\* on, and no bits are read or consumed that the window does not hold
\* (bitsToConsume <= _remBitsInBuf())
C36_Window ==
    /\ ~Halted => /\ buf.off <= pos.headOffsetInCurPktBits
                  /\ pos.headOffsetInCurPktBits <= buf.off + buf.len
    /\ gh.over = <<>>

\* C37: when an instruction that sets an expected length, the data stream
\* type or the event record type, or that begins a variant, raises an error,
\* both expected lengths, the current data stream and event record types,
\* the stack (the cursor of its top frame included) and the offset, mark and
\* element of the iterator are what they were when the instruction began
C37_ThrowBeforeMutate ==
    gh.guard # <<>> => gh.guard[1].pre = gh.guard[1].post

\* the ID of no data stream type is refused with the packet beginning as
\* the current element and no data stream type set
C37_Witness ==
    /\ ~running /\ err = "UnknownDataStreamType" /\ gh.guard # <<>>
    /\ gh.guard[1].kind = "SET_DST" /\ gh.guard[1].err = err
    /\ gh.guard[1].pre.curDsPktProc = -1 /\ pos.curDsPktProc = -1
    /\ gh.guard[1].pre.stack # <<>> /\ pos.stack = gh.guard[1].pre.stack

\* C38: an instruction that sets the expected total length while the
\* content length is unset sets the content length to the same value; with
\* the total length set, an instruction that sets the content length
\* leaves it at most the total length; so whenever the total length is set
\* the content length is set and not above it, and state BEGIN_ER then ends
\* the content exactly when the head is at the content length, without a
\* request to the data source and with the window as it was
C38_ContentLenAfterTotalLen ==
    [][/\ \A i \in DOMAIN gh'.log :
             /\ (/\ gh'.log[i].op = "setPktTotalLen" /\ gh'.log[i].err = NoErr
                 /\ gh'.log[i].content = SIZE_UNSET) =>
                    /\ gh'.log[i].newContent = gh'.log[i].cand
                    /\ gh'.log[i].newTotal = gh'.log[i].cand
             /\ (/\ gh'.log[i].op = "setPktContentLen" /\ gh'.log[i].err = NoErr
                 /\ gh'.log[i].total # SIZE_UNSET) =>
                    /\ gh'.log[i].newContent <= gh'.log[i].total
                    /\ gh'.log[i].newContent # SIZE_UNSET
       /\ pos'.curExpectedPktTotalLenBits # SIZE_UNSET =>
             /\ pos'.curExpectedPktContentLenBits # SIZE_UNSET
             /\ pos'.curExpectedPktContentLenBits <= pos'.curExpectedPktTotalLenBits
       /\ (pos.theState = "BEGIN_ER" /\ pos.curExpectedPktTotalLenBits # SIZE_UNSET) =>
             /\ (pos'.theState = "END_PKT_CONTENT") =
                    (pos.headOffsetInCurPktBits = pos.curExpectedPktContentLenBits)
             /\ pos'.theState = "END_PKT_CONTENT" =>
                    /\ buf' = buf /\ err' = NoErr
                    /\ \A i \in DOMAIN gh'.log : gh'.log[i].op # "tryHaveBits"]_vars

\* the content of a packet of 64 bits ends at bit 40, where the last event
\* record ended
C38_Witness ==
    /\ gh.st0 = "BEGIN_ER" /\ pos.theState = "END_PKT_CONTENT" /\ err = NoErr
    /\ pos.curExpectedPktTotalLenBits = 64 /\ pos.curExpectedPktContentLenBits = 40
    /\ pos.headOffsetInCurPktBits = 40 /\ buf.off + buf.len > 40

\* the step emits an element
Emits == gh'.emits = (IF running THEN gh.emits ELSE 0) + 1

\* C39: state BEGIN_PKT either emits PacketBeginning with mark 1 or, at the
\* end of the element sequence, leaves mark 0 and the end offset; any other
\* state that emits an element gives it the mark of the element before plus
\* 1, and one that emits nothing leaves the iterator as it is
C39_Marks ==
    [][IF pos.theState = "BEGIN_PKT"
       THEN IF Emits
            THEN it'.elem = "pktBeginning" /\ it'.mark = 1
                 /\ gh'.site = <<"begin", "Pkt">> /\ it'.offset # END_OFFSET
            ELSE /\ it'.mark = 0 /\ it'.offset = END_OFFSET /\ it'.elem = it.elem
                 /\ ~running' /\ pos'.theState = "BEGIN_PKT"
       ELSE IF Emits
            THEN it'.mark = it.mark + 1 /\ it'.mark >= 2 /\ gh'.site # <<"begin", "Pkt">>
            ELSE it' = it]_vars

\* the PacketBeginning of a second packet, after the End of the first one
\* which had mark 21
C39_Witness ==
    /\ ~running /\ err = NoErr /\ it.elem = "pktBeginning" /\ it.mark = 1
    /\ gh.site = <<"begin", "Pkt">> /\ gh.prevSite = <<"end", "Pkt">>
    /\ gh.prev # <<>> /\ gh.prev[2] = 21 /\ it.offset = gh.prev[1]

\* the end of the element sequence after a packet
C39_WitnessEnd ==
    /\ ~running /\ err = NoErr /\ it.mark = 0 /\ it.offset = END_OFFSET
    /\ it.elem = "end" /\ gh.site = <<"end", "Pkt">> /\ gh.st0 = "BEGIN_PKT"

\* C40: two runs on the same bytes whose data sources return blocks of
\* different sizes see, once both are over and the consecutive substrings
\* are concatenated, the same elements (kinds, values, offsets) and end with
\* the same error at the same offset, if any
C40_ChunkIndependent ==
    (sv.st = "pair" /\ RunOver(sv.ref) /\ RunOver(sv.replay)) =>
        MergeSubstr(sv.ref) = MergeSubstr(sv.replay)

====
